---- MODULE Spec2Model ----
(***************************************************************************)
(* web-craft: task store (tasks/manager.py), task records                  *)
(* (tasks/models.py), the task executor loop (cmd/crawl.py), the strategy  *)
(* registry (spiders/core/spider_loader.py) and the crawl pipeline         *)
(* (spiders/core/base_spider.py, worker/spider_engine.py).                 *)
(***************************************************************************)
EXTENDS Integers, Sequences, FiniteSets, TLC

(***************************************************************************)
(* Bounds                                                                  *)
(***************************************************************************)
MaxTasks == 2

NumExecutors == 2

TaskIds == 1..MaxTasks

Executors == 1..NumExecutors

(***************************************************************************)
(* Optional values: Python None is the empty set, a value x is {x}.        *)
(***************************************************************************)
None == {}

Some(x) == {x}

(***************************************************************************)
(* tasks/models.py                                                         *)
(***************************************************************************)
PENDING == "pending"

RUNNING == "running"

COMPLETED == "completed"

FAILED == "failed"

CANCELLED == "cancelled"

\* class TaskStatus, in declaration (iteration) order
TaskStatus == <<PENDING, RUNNING, COMPLETED, FAILED, CANCELLED>>

SINGLE == "single"

\* the urls requested: a page answering 200, a page answering 404, a host
\* that refuses the connection, a host that does not answer in time, a
\* name that does not resolve, and a page whose body cannot be decoded
Urls == {"http://ok.test", "http://missing.test", "http://down.test",
         "http://slow.test", "http://nxdomain.test", "http://garbled.test"}

\* the strategy names tasks are created for and classes register under;
\* "ghost" is never registered, "draft" is the name of the class of the
\* unit _draft.py, "mynews" that of the class of my_news.py, and "my_news"
\* the name that unit is created and looked up with
SpiderNames == {"default", "hackernews", "custom", "ghost", "draft", "mynews", "my_news"}

\* SpiderTask.create_single_task(url, spider_name, ...) at time now, with the
\* defaults of its other parameters; a dictionary is the sequence of its
\* (key, value) pairs
create_single_task_progress100(task_id, url, spider_name, now) ==
    [task_id |-> task_id, task_type |-> SINGLE, status |-> PENDING,
     created_at |-> now, updated_at |-> now, urls |-> <<url>>,
     spider_name |-> spider_name, method |-> "GET", headers |-> <<>>,
     timeout |-> 30, max_retries |-> 3, delay |-> 1,
     progress |-> 100, processed_urls |-> 0,
     successful_count |-> 0, failed_count |-> 0, error_message |-> None,
     result_files |-> <<>>, execution_time |-> None]

create_single_task(task_id, url, spider_name, now) ==
    [task_id |-> task_id, task_type |-> SINGLE, status |-> PENDING,
     created_at |-> now, updated_at |-> now, urls |-> <<url>>,
     spider_name |-> spider_name, method |-> "GET", headers |-> <<>>,
     timeout |-> 30, max_retries |-> 3, delay |-> 1,
     progress |-> 0, processed_urls |-> 0,
     successful_count |-> 0, failed_count |-> 0, error_message |-> None,
     result_files |-> <<>>, execution_time |-> None]

\* SpiderTask.update_status(status, error_message): the message is stored
\* only when it is truthy (not None, not the empty string)
update_status(task, status, error_message, now) ==
    [task EXCEPT !.status = status,
                 !.updated_at = now,
                 !.error_message = IF error_message # None /\ error_message # Some("")
                                   THEN error_message ELSE @]

\* SpiderTask.update_progress(processed_urls, successful_count, failed_count)
update_progress(task, processed_urls, successful_count, failed_count, now) ==
    [task EXCEPT !.processed_urls = processed_urls,
                 !.successful_count = successful_count,
                 !.failed_count = failed_count,
                 !.progress = IF Len(task.urls) > 0
                              THEN (processed_urls * 100) \div Len(task.urls) ELSE @,
                 !.updated_at = now]

\* SpiderTask.set_completed(result_files, execution_time)
set_completed(task, result_files, execution_time, now) ==
    [task EXCEPT !.status = COMPLETED,
                 !.result_files = result_files,
                 !.execution_time = Some(execution_time),
                 !.progress = 100,
                 !.updated_at = now]

\* a JSON text is modelled by the value it denotes, tagged with its JSON
\* type: json.dumps writes None as null, a str (a member of a str Enum
\* included, by its value) as a string, a number as a number, a list as an
\* array and a dict as an object
json_null == <<"null">>

json_string(s) == <<"string", s>>

json_number(n) == <<"number", n>>

json_array(l) == <<"array", l>>

json_object(d) == <<"object", d>>

\* json.dumps of an Optional value whose JSON type is json_type
json_optional(v, json_type) ==
    IF v = None THEN json_null ELSE <<json_type, CHOOSE x \in v : TRUE>>

\* json.loads of an Optional value
loads_optional(j) == IF j[1] = "null" THEN None ELSE Some(j[2])

\* TaskStatus(value), TaskType(value): the member with that value
TaskStatusOf(value) ==
    TaskStatus[CHOOSE i \in 1..Len(TaskStatus) : TaskStatus[i] = value]

TaskTypeOf(value) == CHOOSE member \in {SINGLE} : member = value

\* SpiderTask.to_json: json.dumps(asdict(self))
to_json(task) ==
    [task_id |-> json_string(task.task_id),
     task_type |-> json_string(task.task_type),
     status |-> json_string(task.status),
     created_at |-> json_string(task.created_at),
     updated_at |-> json_string(task.updated_at),
     urls |-> json_array(task.urls),
     spider_name |-> json_string(task.spider_name),
     method |-> json_string(task.method),
     headers |-> json_object(task.headers),
     timeout |-> json_number(task.timeout),
     max_retries |-> json_number(task.max_retries),
     delay |-> json_number(task.delay),
     progress |-> json_number(task.progress),
     processed_urls |-> json_number(task.processed_urls),
     successful_count |-> json_number(task.successful_count),
     failed_count |-> json_number(task.failed_count),
     error_message |-> json_optional(task.error_message, "string"),
     result_files |-> json_object(task.result_files),
     execution_time |-> json_optional(task.execution_time, "number")]

\* SpiderTask.from_json: json.loads, then from_dict turns the strings of
\* task_type and status into members and calls cls(**data), whose
\* __post_init__ replaces a None headers or result_files by {}
from_json_drops_message(json_str) ==
    [task_id |-> json_str.task_id[2],
     task_type |-> TaskTypeOf(json_str.task_type[2]),
     status |-> TaskStatusOf(json_str.status[2]),
     created_at |-> json_str.created_at[2],
     updated_at |-> json_str.updated_at[2],
     urls |-> json_str.urls[2],
     spider_name |-> json_str.spider_name[2],
     method |-> json_str.method[2],
     headers |-> IF json_str.headers[1] = "null" THEN <<>> ELSE json_str.headers[2],
     timeout |-> json_str.timeout[2],
     max_retries |-> json_str.max_retries[2],
     delay |-> json_str.delay[2],
     progress |-> json_str.progress[2],
     processed_urls |-> json_str.processed_urls[2],
     successful_count |-> json_str.successful_count[2],
     failed_count |-> json_str.failed_count[2],
     error_message |-> None,
     result_files |-> IF json_str.result_files[1] = "null" THEN <<>>
                      ELSE json_str.result_files[2],
     execution_time |-> loads_optional(json_str.execution_time)]

from_json(json_str) ==
    [task_id |-> json_str.task_id[2],
     task_type |-> TaskTypeOf(json_str.task_type[2]),
     status |-> TaskStatusOf(json_str.status[2]),
     created_at |-> json_str.created_at[2],
     updated_at |-> json_str.updated_at[2],
     urls |-> json_str.urls[2],
     spider_name |-> json_str.spider_name[2],
     method |-> json_str.method[2],
     headers |-> IF json_str.headers[1] = "null" THEN <<>> ELSE json_str.headers[2],
     timeout |-> json_str.timeout[2],
     max_retries |-> json_str.max_retries[2],
     delay |-> json_str.delay[2],
     progress |-> json_str.progress[2],
     processed_urls |-> json_str.processed_urls[2],
     successful_count |-> json_str.successful_count[2],
     failed_count |-> json_str.failed_count[2],
     error_message |-> loads_optional(json_str.error_message),
     result_files |-> IF json_str.result_files[1] = "null" THEN <<>>
                      ELSE json_str.result_files[2],
     execution_time |-> loads_optional(json_str.execution_time)]

(***************************************************************************)
(* tasks/manager.py: one file per task in the directory of its status      *)
(***************************************************************************)
Dirs == {"pending", "running", "completed", "failed"}

NoFile == [task_id |-> 0]

\* TaskManager._get_task_file_path: the directory for a status
status_dir_map(status) ==
    CASE status = PENDING -> "pending"
      [] status = RUNNING -> "running"
      [] status = COMPLETED -> "completed"
      [] status = FAILED -> "failed"
      [] status = CANCELLED -> "failed"
      [] OTHER -> "pending"

\* TaskManager._find_task_file: the first directory, in TaskStatus order,
\* holding a file for the id ("none" when there is none)
_find_task_file(fs, task_id) ==
    LET hits == {i \in 1..Len(TaskStatus) : fs[status_dir_map(TaskStatus[i])][task_id] # NoFile}
    IN IF hits = {} THEN "none"
       ELSE status_dir_map(TaskStatus[CHOOSE i \in hits : \A j \in hits : i <= j])

\* TaskManager.create_task
create_task(fs, task) ==
    [fs EXCEPT ![status_dir_map(task.status)][task.task_id] = task]

\* TaskManager.get_task: NoFile stands for None
get_task(fs, task_id) ==
    LET d == _find_task_file(fs, task_id)
    IN IF d = "none" THEN NoFile ELSE fs[d][task_id]

\* TaskManager.update_task: write the file of the new status, then unlink
\* the file found before the write when its path differs; when unlink
\* raises, the except clause returns False and the file written stays
update_task_outcome_unlinks_first(fs, task, unlink_fails) ==
    LET old == _find_task_file(fs, task.task_id)
        new == status_dir_map(task.status)
        written == [fs EXCEPT ![new][task.task_id] = task]
    IN IF old # "none" /\ old # new
       THEN IF unlink_fails
            THEN [fs |-> fs, ok |-> FALSE]
            ELSE [fs |-> [written EXCEPT ![old][task.task_id] = NoFile], ok |-> TRUE]
       ELSE [fs |-> written, ok |-> TRUE]

update_task_outcome(fs, task, unlink_fails) ==
    LET old == _find_task_file(fs, task.task_id)
        new == status_dir_map(task.status)
        written == [fs EXCEPT ![new][task.task_id] = task]
    IN IF old # "none" /\ old # new
       THEN IF unlink_fails
            THEN [fs |-> written, ok |-> FALSE]
            ELSE [fs |-> [written EXCEPT ![old][task.task_id] = NoFile], ok |-> TRUE]
       ELSE [fs |-> written, ok |-> TRUE]

\* TaskManager.update_task when unlink does not raise: the store after it
update_task(fs, task) == update_task_outcome(fs, task, FALSE).fs

\* the modification times of the files of the store fs, reached from the
\* times mt by writing the file of `task` at time now
written_at(mt, fs, task, now) ==
    [d \in Dirs |-> [i \in TaskIds |->
        IF fs[d][i] = NoFile THEN 0
        ELSE IF d = status_dir_map(task.status) /\ i = task.task_id THEN now
        ELSE mt[d][i]]]

\* the records of a directory, newest created_at first
RECURSIVE SortByCreatedDesc(_)
SortByCreatedDesc(recs) ==
    IF recs = {} THEN <<>>
    ELSE LET newest == CHOOSE r \in recs : \A q \in recs : q.created_at <= r.created_at
         IN <<newest>> \o SortByCreatedDesc(recs \ {newest})

\* TaskManager.list_tasks(status = s), no limit
list_tasks(fs, status) ==
    LET d == status_dir_map(status)
    IN SortByCreatedDesc({fs[d][i] : i \in {j \in TaskIds : fs[d][j] # NoFile}})

\* TaskManager.get_pending_tasks
get_pending_tasks(fs) == list_tasks(fs, PENDING)

\* the records of the files of the directory of a status
dir_tasks(fs, status) ==
    LET d == status_dir_map(status)
    IN {fs[d][i] : i \in {j \in TaskIds : fs[d][j] # NoFile}}

\* TaskManager.list_tasks(status, limit = n): the sets of records the loop
\* over search_dir.glob("*.json") can have appended when it ends.  glob
\* yields the files in the order of the directory, which is not the order
\* of creation; with a limit the loop breaks once n records are appended,
\* without a limit (None or 0) it reads them all
list_tasks_read(fs, status, limit) ==
    LET all == dir_tasks(fs, status)
    IN IF limit = 0 \/ Cardinality(all) <= limit
       THEN {all}
       ELSE {read \in SUBSET all : Cardinality(read) = limit}

\* TaskManager.list_tasks(status, limit = n) for the records read: sort by
\* created_at, newest first, then tasks[:limit] when the limit is truthy
list_tasks_limit(read, limit) ==
    LET sorted == SortByCreatedDesc(read)
    IN IF limit # 0 /\ Len(sorted) > limit THEN SubSeq(sorted, 1, limit) ELSE sorted

\* TaskManager.get_task_stats: the length of list_tasks(status) for every
\* status but CANCELLED, under the value of the status, and their sum
get_task_stats(fs) ==
    [pending |-> Len(list_tasks(fs, PENDING)),
     running |-> Len(list_tasks(fs, RUNNING)),
     completed |-> Len(list_tasks(fs, COMPLETED)),
     failed |-> Len(list_tasks(fs, FAILED)),
     total |-> Len(list_tasks(fs, PENDING)) + Len(list_tasks(fs, RUNNING))
               + Len(list_tasks(fs, COMPLETED)) + Len(list_tasks(fs, FAILED))]

\* TaskManager.cleanup_old_tasks: the files unlinked, as (directory, id).
\* Every *.json of completed/ and of failed/ whose st_mtime is before the
\* cutoff is unlinked; the task is not read.  An exception on a file
\* (`failing`) is swallowed and the loop goes on with the next file
cleanup_unlinked(fs, mt, cutoff, failing) ==
    {f \in {"completed", "failed"} \X TaskIds :
        /\ fs[f[1]][f[2]] # NoFile
        /\ mt[f[1]][f[2]] < cutoff
        /\ f[2] \notin failing}

\* TaskManager.cleanup_old_tasks(days) at a time whose cutoff_date is
\* `cutoff`: the store after it and cleaned_count
cleanup_old_tasks(fs, mt, cutoff, failing) ==
    LET unlinked == cleanup_unlinked(fs, mt, cutoff, failing)
    IN [fs |-> [d \in Dirs |-> [i \in TaskIds |->
                   IF <<d, i>> \in unlinked THEN NoFile ELSE fs[d][i]]],
        cleaned_count |-> Cardinality(unlinked)]

(***************************************************************************)
(* spiders/core/spider_loader.py: the strategy registry                    *)
(***************************************************************************)
\* strategy classes: the two shipped with the repository, one supplied by
\* a user, whose parse raises, and the one of the unit _draft.py;
\* PlainClass does not derive from BaseSpider
\* "CustomSpider_v2" is the class CustomSpider of a rewritten custom.py: the
\* same __name__, another class object with another parse
SpiderClasses == {"DefaultSpider", "HackerNewsSpider", "CustomSpider", "DraftSpider",
                  "Custom", "MyNewsSpider", "CustomSpider_v2"}

PlainClass == "PlainClass"

NoClass == "NoClass"

\* the modules of the strategy source collection and the class each defines
SpiderModules == {"default", "hackernews", "custom"}

\* the *.py units the collection may hold: the modules above, broken.py,
\* whose import raises, and _draft.py
SourceUnits == SpiderModules \cup {"broken", "_draft"}

\* every unit name the model writes or scans
AllUnits == SourceUnits \cup {"custom_alt", "my_news"}

\* file_path.name.startswith('_')
StartsWithUnderscore(m) == m \in {"_draft"}

\* importing the unit raises an Exception
LoadFails(m) == m = "broken"

ModuleClass(m) ==
    CASE m = "default" -> "DefaultSpider"
      [] m = "hackernews" -> "HackerNewsSpider"
      [] m = "custom" -> "CustomSpider"
      [] m = "_draft" -> "DraftSpider"
      [] m = "custom_alt" -> "Custom"
      [] m = "my_news" -> "MyNewsSpider"
      [] OTHER -> NoClass

\* spider_class.__module__.split('.')[-1]: the unit that defines the class
ClassModule(cls) ==
    CASE cls = "DefaultSpider" -> "default"
      [] cls = "HackerNewsSpider" -> "hackernews"
      [] cls = "CustomSpider" -> "custom"
      [] cls = "DraftSpider" -> "_draft"
      [] cls = "Custom" -> "custom_alt"
      [] cls = "MyNewsSpider" -> "my_news"
      [] cls = "CustomSpider_v2" -> "custom"

\* BaseSpider.__init__: name = class name, lower-cased, without "spider"
InstanceName(cls) ==
    CASE cls = "DefaultSpider" -> "default"
      [] cls = "HackerNewsSpider" -> "hackernews"
      [] cls = "CustomSpider" -> "custom"
      [] cls = "DraftSpider" -> "draft"
      [] cls = "Custom" -> "custom"
      [] cls = "MyNewsSpider" -> "mynews"
      [] cls = "CustomSpider_v2" -> "custom"

EmptyRegistry == [n \in SpiderNames |-> NoClass]

\* SpiderLoader.register_spider raises ValueError for a class that does not
\* derive from BaseSpider
register_spider_raises(cls) == cls \notin SpiderClasses

\* SpiderLoader.register_spider: the mapping after the call
register_spider(sp, name, cls) ==
    IF register_spider_raises(cls) THEN sp ELSE [sp EXCEPT ![name] = cls]

\* the units of `files` the loop of _discover_custom_spiders gets a
\* module from: not skipped for their name, and imported without raising
Loadable(files) == {m \in files : ~StartsWithUnderscore(m) /\ ~LoadFails(m)}

\* SpiderLoader._discover_custom_spiders over the units `files`: a class
\* is registered under its instance name unless the name is already taken
_discover_custom_spiders(sp, files) ==
    [n \in SpiderNames |->
        IF sp[n] # NoClass THEN sp[n]
        ELSE IF \E m \in Loadable(files) : InstanceName(ModuleClass(m)) = n
             THEN register_spider(sp, n, ModuleClass(CHOOSE m \in Loadable(files) :
                                     InstanceName(ModuleClass(m)) = n))[n]
             ELSE NoClass]

\* SpiderLoader.get_spider: the name looked up after the fallback
get_spider_name(sp, name) == IF sp[name] = NoClass THEN "default" ELSE name

\* SpiderLoader.get_spider raises KeyError('default') when neither the name
\* nor "default" is registered and no instance of "default" is cached
get_spider_raises_never(sp, inst, name) == FALSE

get_spider_raises(sp, inst, name) ==
    LET n == get_spider_name(sp, name)
    IN inst[n] = NoClass /\ sp[n] = NoClass

\* SpiderLoader.get_spider: the instance cache after the call
get_spider_instances(sp, inst, name) ==
    LET n == get_spider_name(sp, name)
    IN IF inst[n] = NoClass /\ sp[n] # NoClass THEN [inst EXCEPT ![n] = sp[n]] ELSE inst

\* SpiderLoader.get_spider: the class of the instance returned
get_spider(sp, inst, name) ==
    get_spider_instances(sp, inst, name)[get_spider_name(sp, name)]

\* str(KeyError('default'))
KeyErrorDefault == "'default'"

(***************************************************************************)
(* spiders/core/spider_validator.py                                        *)
(***************************************************************************)
\* the largest number of BaseSpider-derived types in a source's namespace
MaxTypes == 2

\* how a type declares the class attribute name or start_url: not at all,
\* as None, as a value that is not a str, as '', as white space only, or
\* as a str with other characters
FieldValues == {"absent", "none", "nonstring", "empty", "blank", "ok"}

\* how a type has parse: defined in its own __dict__, inherited from
\* BaseSpider, bound in its __dict__ to a value that is not callable, or
\* (a class outside the BaseSpider hierarchy) not at all
ParseValues == {"own", "inherited", "noncallable", "absent"}

\* the BaseSpider-derived types a source may define
TypeDescs == [name : FieldValues, start_url : FieldValues,
              parse : ParseValues \ {"absent"}]

\* the classes validate_structure may be called with
AnyClassDescs == [name : FieldValues, start_url : FieldValues, parse : ParseValues]

ValidType == [name |-> "ok", start_url |-> "ok", parse |-> "own"]

BareType == [name |-> "absent", start_url |-> "absent", parse |-> "inherited"]

\* a source text: whether ast.parse accepts it ("parse_error": it raises
\* SyntaxError; "compile_error": ast.parse accepts it and compiling it
\* raises SyntaxError, as for a return outside a function), what executing
\* the compiled module raises, and the BaseSpider-derived types of its
\* namespace in the order of dir(module)
SyntaxValues == {"ok", "parse_error", "compile_error"}

LoadValues == {"ok", "ImportError", "AttributeError", "Exception"}

RECURSIVE SeqsUpTo(_, _)
SeqsUpTo(S, n) ==
    IF n = 0 THEN {<<>>}
    ELSE LET shorter == SeqsUpTo(S, n - 1)
         IN shorter \cup {<<x>> \o q : x \in S, q \in {r \in shorter : Len(r) = n - 1}}

Sources ==
    {[syntax |-> s, load |-> "ok", types |-> <<>>] : s \in SyntaxValues \ {"ok"}}
    \cup {[syntax |-> "ok", load |-> l, types |-> <<>>] : l \in LoadValues}
    \cup {[syntax |-> "ok", load |-> "ok", types |-> <<t>> \o rest] :
             t \in TypeDescs, rest \in SeqsUpTo({ValidType, BareType}, MaxTypes - 1)}

\* the interpreter's settings and the directory order the call runs under:
\* whether imports write bytecode (sys.dont_write_bytecode is False by
\* default) and which entry temp_dir.glob("*") yields first
Envs == [write_bytecode : BOOLEAN, glob_first : {"file", "__pycache__"}]

\* what validate_import leaves behind: temp_dir on sys.path, the temporary
\* module in sys.modules, temp_dir and temp_file on disk
CleanProc == [on_path |-> FALSE, in_modules |-> FALSE, temp_dir |-> FALSE,
              temp_file |-> FALSE, pycache |-> FALSE]

ValidationError(type, about) == [type |-> type, about |-> about]

\* SpiderValidator.validate_syntax: ast.parse(code)
validate_syntax(code) ==
    IF code.syntax = "parse_error"
    THEN [success |-> FALSE, errors |-> <<ValidationError("syntax_error", "code")>>]
    ELSE [success |-> TRUE, errors |-> <<>>]

\* str.strip() on a field value
strip_keeps_blank(v) == v

strip(v) == IF v = "blank" THEN "empty" ELSE v

\* validate_structure: the checks of one of the fields name and start_url
field_errors(value, field) ==
    IF value = "absent"
    THEN <<ValidationError("structure_error", field)>>
    ELSE IF value \in {"none", "nonstring"}
    THEN <<ValidationError("field_error", field)>>
    ELSE IF strip(value) = "empty"
    THEN <<ValidationError("field_error", field)>>
    ELSE <<>>

\* validate_structure: the checks of parse
parse_errors_accepts_inherited(p) ==
    IF p \in {"absent", "noncallable"}
    THEN <<ValidationError("structure_error", "parse")>>
    ELSE <<>>

parse_errors(p) ==
    IF p = "absent"
    THEN <<ValidationError("structure_error", "parse")>>
    ELSE IF p = "noncallable"
    THEN <<ValidationError("structure_error", "parse")>>
    ELSE IF p = "inherited"
    THEN <<ValidationError("structure_error", "parse")>>
    ELSE <<>>

\* SpiderValidator.validate_structure(spider_class)
validate_structure(cls) ==
    LET errors == field_errors(cls.name, "name")
                  \o field_errors(cls.start_url, "start_url")
                  \o parse_errors(cls.parse)
    IN [success |-> errors = <<>>, errors |-> errors]

\* validate_import: the loop over dir(module), which stops at the first
\* type deriving from BaseSpider (<<>> stands for spider_class = None)
find_spider_class_finds_none(types) == <<>>

find_spider_class(types) == IF types = <<>> THEN <<>> ELSE <<Head(types)>>

\* what importlib.import_module(temp_module_name) raises ("ok": nothing)
import_outcome(code) == IF code.syntax # "ok" THEN "SyntaxError" ELSE code.load

\* validate_import: the errors of the inner try statement
validate_import_errors(code) ==
    IF import_outcome(code) # "ok"
    THEN <<ValidationError("import_error", import_outcome(code))>>
    ELSE LET spider_class == find_spider_class(code.types)
         IN IF spider_class = <<>>
            THEN <<ValidationError("structure_error", "class")>>
            ELSE validate_structure(spider_class[1]).errors

\* validate_import up to the finally clause: mkdtemp, write_text,
\* sys.path.insert, import_module; the import writes __pycache__ once the
\* source compiled, and a module that raised is taken out of sys.modules
validate_import_before_cleanup(code, env) ==
    [on_path |-> TRUE,
     in_modules |-> import_outcome(code) = "ok",
     temp_dir |-> TRUE,
     temp_file |-> TRUE,
     pycache |-> code.syntax = "ok" /\ env.write_bytecode]

\* validate_import: the finally clause; file.unlink() raises on the
\* directory __pycache__, and the exception ends the loop and is passed over
validate_import_cleanup(proc, env) ==
    [on_path |-> FALSE,
     in_modules |-> FALSE,
     temp_dir |-> proc.pycache,
     temp_file |-> proc.pycache /\ env.glob_first = "__pycache__",
     pycache |-> proc.pycache]

\* SpiderValidator.validate_import(code, spider_name)
validate_import(code, env) ==
    LET errors == validate_import_errors(code)
    IN [success |-> errors = <<>>, errors |-> errors,
        proc |-> validate_import_cleanup(validate_import_before_cleanup(code, env), env)]

\* SpiderValidator.validate_all(code, spider_name)
validate_all(code, env) ==
    LET syntax_result == validate_syntax(code)
    IN IF ~syntax_result.success
       THEN [success |-> FALSE, errors |-> syntax_result.errors, proc |-> CleanProc]
       ELSE validate_import(code, env)

(***************************************************************************)
(* worker/spider_engine.py, spiders/core/base_spider.py: the crawl         *)
(***************************************************************************)
\* what the network answers for a url: an HTTP response, or the kind of
\* failure of the transport
Web(url) ==
    CASE url = "http://ok.test" ->
            [response |-> TRUE, status |-> 200, text |-> "<html>ok</html>", failure |-> "none"]
      [] url = "http://missing.test" ->
            [response |-> TRUE, status |-> 404, text |-> "not found", failure |-> "none"]
      [] url = "http://down.test" ->
            [response |-> FALSE, status |-> 0, text |-> "", failure |-> "refused"]
      [] url = "http://slow.test" ->
            [response |-> FALSE, status |-> 0, text |-> "", failure |-> "timeout"]
      [] url = "http://nxdomain.test" ->
            [response |-> FALSE, status |-> 0, text |-> "", failure |-> "dns"]
      [] url = "http://garbled.test" ->
            [response |-> FALSE, status |-> 0, text |-> "", failure |-> "decode"]

ConnectionRefused == "Cannot connect to host"

\* the exception classes a handler of the fetch functions names or the
\* transport raises, each with the classes it derives from (itself included)
Bases(cls) ==
    CASE cls = "ClientConnectorError" -> {"ClientConnectorError", "aiohttp.ClientError", "Exception"}
      [] cls = "TimeoutError" -> {"TimeoutError", "Exception"}
      [] cls = "UnicodeDecodeError" -> {"UnicodeDecodeError", "Exception"}
      [] cls = "requests.ConnectionError" ->
            {"requests.ConnectionError", "requests.RequestException", "Exception"}
      [] cls = "requests.Timeout" -> {"requests.Timeout", "requests.RequestException", "Exception"}
      [] cls = "requests.HTTPError" -> {"requests.HTTPError", "requests.RequestException", "Exception"}
      [] cls = "AttributeError" -> {"AttributeError", "Exception"}

\* what aiohttp raises for a failure of the transport, and str() of it
\* (the total timeout raises asyncio.TimeoutError without arguments)
aiohttp_raises(failure) ==
    CASE failure = "refused" -> [cls |-> "ClientConnectorError", text |-> ConnectionRefused]
      [] failure = "dns" -> [cls |-> "ClientConnectorError", text |-> ConnectionRefused]
      [] failure = "timeout" -> [cls |-> "TimeoutError", text |-> ""]
      [] failure = "decode" -> [cls |-> "UnicodeDecodeError", text |-> "can't decode byte"]

\* what requests raises for a failure of the transport, and str() of it
requests_raises(failure) ==
    CASE failure = "refused" -> [cls |-> "requests.ConnectionError", text |-> "Connection refused"]
      [] failure = "dns" -> [cls |-> "requests.ConnectionError", text |-> "Name or service not known"]
      [] failure = "timeout" -> [cls |-> "requests.Timeout", text |-> "Read timed out"]
      [] failure = "decode" -> [cls |-> "UnicodeDecodeError", text |-> "can't decode byte"]

\* config.py: the attributes of the class Config (its fields and methods)
ConfigAttributes == {"spider", "tasks", "concurrency", "server", "logging",
                     "from_toml", "validate"}

\* the first statement of the try block of both fetch functions,
\* headers = Config.DEFAULT_HEADERS.copy(), raises AttributeError: the class
\* Config has no attribute DEFAULT_HEADERS
default_headers_raises == "DEFAULT_HEADERS" \notin ConfigAttributes

ConfigError == [cls |-> "AttributeError",
                text |-> "type object 'Config' has no attribute 'DEFAULT_HEADERS'"]

\* the except clauses of fetch_async and of fetch_sync
fetch_async_handlers_client_error_only == {"aiohttp.ClientError"}

fetch_async_handlers == {"aiohttp.ClientError", "Exception"}

fetch_sync_handlers == {"requests.RequestException", "Exception"}

\* an exception of class cls is caught by one of the except clauses
Caught(handlers, cls) == handlers \cap Bases(cls) # {}

\* the SpiderResponse both functions build in their except clauses
failed_response(url, exc) ==
    [url |-> url, status_code |-> 0, content |-> "",
     success |-> FALSE, error_message |-> Some(exc.text)]

\* the exception raised inside the try statement of fetch_async, when one
\* is raised
fetch_async_exception(url) ==
    IF default_headers_raises THEN ConfigError ELSE aiohttp_raises(Web(url).failure)

\* SpiderEngine.fetch_async raises to its caller
fetch_async_raises(url) ==
    /\ default_headers_raises \/ ~Web(url).response
    /\ ~Caught(fetch_async_handlers, fetch_async_exception(url).cls)

\* SpiderEngine.fetch_async: a SpiderResponse for any HTTP response, and a
\* failed SpiderResponse with status 0 when the try block raises
fetch_async(url) ==
    IF ~default_headers_raises /\ Web(url).response
    THEN [url |-> url, status_code |-> Web(url).status, content |-> Web(url).text,
          success |-> TRUE, error_message |-> None]
    ELSE failed_response(url, fetch_async_exception(url))

\* response.raise_for_status() raises HTTPError
raise_for_status(status) == status >= 400

\* the exception raised inside the try statement of fetch_sync
fetch_sync_exception(url) ==
    IF default_headers_raises THEN ConfigError
    ELSE IF Web(url).response
         THEN [cls |-> "requests.HTTPError", text |-> "Client Error"]
         ELSE requests_raises(Web(url).failure)

\* SpiderEngine.fetch_sync raises to its caller
fetch_sync_raises(url) ==
    /\ default_headers_raises \/ ~Web(url).response \/ raise_for_status(Web(url).status)
    /\ ~Caught(fetch_sync_handlers, fetch_sync_exception(url).cls)

\* SpiderEngine.fetch_sync: a SpiderResponse when the status is below 400,
\* and a failed SpiderResponse with status 0 otherwise
fetch_sync(url) ==
    IF ~default_headers_raises /\ Web(url).response /\ ~raise_for_status(Web(url).status)
    THEN [url |-> url, status_code |-> Web(url).status, content |-> Web(url).text,
          success |-> TRUE, error_message |-> None]
    ELSE failed_response(url, fetch_sync_exception(url))

ParseBoom == "parse boom"

\* the parse method of each strategy class: DefaultSpider returns the raw
\* content, HackerNewsSpider a dictionary, CustomSpider raises
parse(cls, raw_content) ==
    CASE cls = "DefaultSpider" -> [raised |-> FALSE, value |-> raw_content]
      [] cls = "HackerNewsSpider" -> [raised |-> FALSE, value |-> "items"]
      [] cls = "CustomSpider" -> [raised |-> TRUE, value |-> ParseBoom]
      [] cls = "DraftSpider" -> [raised |-> FALSE, value |-> "draft"]

\* api/models.py: the fields of SpiderTaskRequest
SpiderTaskRequestFields == {"spider_name", "params", "data", "timeout", "url", "method"}

\* input/parameter_handler.py: the fields of the SpiderRequest dataclass
SpiderRequestFields == {"url", "method", "params", "data", "timeout", "max_retries", "use_proxy"}

\* BaseSpider.crawl_single: the attributes read from the request and passed
\* as keyword arguments to SpiderRequest(...)
CrawlSingleKwargs == {"url", "method", "params", "data", "timeout", "max_retries", "delay", "use_proxy"}

\* building the SpiderRequest raises (AttributeError on the attribute the
\* request lacks, TypeError on the keyword the dataclass lacks); the
\* statement is outside crawl_single's try block
SpiderRequestRaises ==
    ~(CrawlSingleKwargs \subseteq SpiderTaskRequestFields)
    \/ ~(CrawlSingleKwargs \subseteq SpiderRequestFields)

RequestError == "'SpiderTaskRequest' object has no attribute 'max_retries'"

NoResult == [success |-> FALSE, status_code |-> 0, content |-> "",
             extracted_data |-> None, error_message |-> None]

\* BaseSpider.crawl_single for an instance of cls: either raises or returns
\* a SpiderResult
crawl_single(cls, url) ==
    IF SpiderRequestRaises
    THEN [raised |-> TRUE, exc |-> RequestError, fetched |-> FALSE, result |-> NoResult]
    ELSE LET response == fetch_async(url)
         IN IF response.success
            THEN LET p == parse(cls, response.content)
                 IN IF p.raised
                    THEN [raised |-> FALSE, exc |-> "", fetched |-> TRUE,
                          result |-> [success |-> FALSE, status_code |-> 0, content |-> "",
                                      extracted_data |-> None,
                                      error_message |-> Some(p.value)]]
                    ELSE [raised |-> FALSE, exc |-> "", fetched |-> TRUE,
                          result |-> [success |-> TRUE, status_code |-> response.status_code,
                                      content |-> response.content,
                                      extracted_data |-> Some(p.value),
                                      error_message |-> None]]
            ELSE [raised |-> FALSE, exc |-> "", fetched |-> TRUE,
                  result |-> [success |-> FALSE, status_code |-> response.status_code,
                              content |-> response.content, extracted_data |-> None,
                              error_message |-> response.error_message]]

\* the largest max_retries a request is given
MaxRetries == 2

\* time.sleep(request.delay * (attempt + 1)) raises AttributeError: the
\* SpiderRequest dataclass has no field delay
sleep_raises == "delay" \notin SpiderRequestFields

RECURSIVE fetch_with_retry_from(_, _, _)
\* SpiderEngine.fetch_with_retry from the iteration `attempt` of its for
\* loop on; answers[k] is the site the host behaves like at the k-th call
\* of fetch_sync.  The result gives the number of calls of fetch_sync, the
\* sleeps made (in multiples of request.delay), whether the function raised
\* and the response returned (none when it returned None or raised).  An
\* exception inside the try is caught by `except
\* Exception`, whose handler sleeps again when attempt < max_retries; that
\* second sleep is outside any try.
fetch_with_retry_from(answers, max_retries, attempt) ==
    IF attempt > max_retries
    THEN [raised |-> FALSE, response |-> None, attempts |-> 0, sleeps |-> <<>>]
    ELSE LET url == answers[attempt + 1]
             rest == fetch_with_retry_from(answers, max_retries, attempt + 1)
             again == [rest EXCEPT !.attempts = @ + 1]
             slept == [again EXCEPT !.sleeps = <<attempt + 1>> \o @]
             raises == [raised |-> TRUE, response |-> None, attempts |-> 1, sleeps |-> <<>>]
         IN IF ~fetch_sync_raises(url) /\ fetch_sync(url).status_code = 200
            THEN [raised |-> FALSE, response |-> Some(fetch_sync(url)),
                  attempts |-> 1, sleeps |-> <<>>]
            ELSE IF attempt < max_retries
                 THEN IF sleep_raises THEN raises ELSE slept
                 ELSE again

fetch_with_retry(answers, max_retries) == fetch_with_retry_from(answers, max_retries, 0)

\* BaseSpider.crawl_single: the number of fetches it makes, one call of
\* spider_engine.fetch_async when the request could be built
crawl_single_fetches(cls, url) == IF crawl_single(cls, url).fetched THEN 1 ELSE 0

(***************************************************************************)
(* cmd/crawl.py: TaskExecutor                                              *)
(***************************************************************************)
\* TaskExecutor._execute_single_task: the boolean returned
_execute_single_task_success(task, cls) ==
    LET c == crawl_single(cls, task.urls[1])
    IN ~c.raised /\ c.result.success

\* TaskExecutor._execute_single_task: the task after the call
_execute_single_task(task, cls) ==
    IF _execute_single_task_success(task, cls)
    THEN [task EXCEPT !.successful_count = 1, !.failed_count = 0]
    ELSE [task EXCEPT !.successful_count = 0, !.failed_count = 1]

TaskExecutionFailed == "Task execution failed"

\* TaskExecutor.run_worker: where the loop goes after execute_task returned
\* for one task of pending_tasks (the for loop goes on with the rest, then
\* sleeps and polls again); "stopped" is the loop left for good
run_worker_next_stops_on_failure(ok, rest) ==
    IF ~ok THEN "stopped" ELSE IF rest = <<>> THEN "poll" ELSE "loop"

run_worker_next(ok, rest) == IF rest = <<>> THEN "poll" ELSE "loop"

(***************************************************************************)
(* State                                                                   *)
(***************************************************************************)
\* loader 0 is a SpiderLoader driven through its public methods; loader e,
\* e in Executors, is the module-level spider_loader of executor process e
LoaderIds == 0..NumExecutors

\* the last call on loader 0: its arguments, what it returned or that it
\* raised, and the classes bound to the name and to "default" before it
NoRet == [op |-> "none", name |-> "", cls |-> NoClass, raised |-> FALSE,
          was |-> NoClass, was_default |-> NoClass]

VARIABLES
    tasks_dir,        \* the task store: directory -> task id -> file content
    next_id,          \* number of tasks created so far
    clock,            \* wall-clock time
    spider_files,     \* modules present in the strategy source collection
    spiders,          \* loader -> SpiderLoader._spiders
    spider_instances, \* loader -> SpiderLoader._spider_instances (class of the instance)
    ret,              \* outcome of the last call on loader 0
    pc,               \* executor -> position in run_worker/execute_task
    pending_tasks,    \* executor -> the list read by get_pending_tasks, current task first
    spider,           \* executor -> class of the instance get_spider returned
    start_time,       \* executor -> start_time of execute_task
    processed_count,  \* executor -> run_worker's processed_count
    sys_modules,      \* units of the collection in sys.modules of loader 0's process
    module_class,     \* unit -> class of its module in sys.modules (NoClass: not imported)
    spider_code,      \* unit -> class the text of <unit>.py defines (NoClass: no file)
    reloading,        \* reload_spiders of loader 0: under way, units left, mapping before
    reload_names,     \* names registered after the last (two) reloads of an unchanged collection
    listed,           \* what list_spiders returned during the reload under way
    call,             \* the last call of a validator, fetch or store function and its outcome
    mtime             \* directory -> task id -> modification time of the file (0: no file)

vars == <<tasks_dir, next_id, clock, spider_files, spiders, spider_instances, ret,
          pc, pending_tasks, spider, start_time, processed_count,
          sys_modules, module_class, spider_code, reloading, reload_names, listed, call, mtime>>

service_vars == <<sys_modules, module_class, spider_code, reloading, reload_names, listed, call>>

NoReload == [active |-> FALSE, todo |-> {}, before |-> EmptyRegistry]

NoList == [n \in SpiderNames |-> "unread"]

NoCall == [op |-> "none"]

executor_vars == <<pc, pending_tasks, spider, start_time, processed_count>>

registry_vars == <<spider_files, spiders, spider_instances, ret>>

\* the strategy source collection holds the shipped modules and the user's;
\* default.py may have been deleted through SpiderService.delete_spider,
\* which protects only 'ip' and 'hackernews'
InitFrom(collections) ==
    /\ tasks_dir = [d \in Dirs |-> [i \in TaskIds |-> NoFile]]
    /\ next_id = 0
    /\ clock = 0
    /\ spider_files \in collections
    /\ spiders = [l \in LoaderIds |-> _discover_custom_spiders(EmptyRegistry, spider_files)]
    /\ spider_instances = [l \in LoaderIds |-> EmptyRegistry]
    /\ ret = NoRet
    /\ pc = [e \in Executors |-> "poll"]
    /\ pending_tasks = [e \in Executors |-> <<>>]
    /\ spider = [e \in Executors |-> NoClass]
    /\ start_time = [e \in Executors |-> 0]
    /\ processed_count = [e \in Executors |-> 0]
    /\ sys_modules = Loadable(spider_files)
    /\ module_class = [m \in AllUnits |->
                          IF m \in Loadable(spider_files) THEN ModuleClass(m) ELSE NoClass]
    /\ spider_code = [m \in AllUnits |->
                         IF m \in spider_files THEN ModuleClass(m) ELSE NoClass]
    /\ reloading = NoReload
    /\ reload_names = <<>>
    /\ listed = NoList
    /\ call = NoCall
    /\ mtime = [d \in Dirs |-> [i \in TaskIds |-> 0]]

Init == InitFrom({SpiderModules, SpiderModules \ {"default"}})

(***************************************************************************)
(* Task creation: SpiderTask.create_single_task + TaskManager.create_task  *)
(***************************************************************************)
TaskUrls == {"http://ok.test", "http://down.test"}

TaskSpiderNames == {"default", "custom", "ghost"}

CreateTask(url, name) ==
    /\ next_id < MaxTasks
    /\ next_id' = next_id + 1
    /\ clock' = clock + 1
    /\ tasks_dir' = create_task(tasks_dir,
                                create_single_task(next_id + 1, url, name, clock + 1))
    /\ mtime' = written_at(mtime, tasks_dir',
                           create_single_task(next_id + 1, url, name, clock + 1), clock + 1)
    /\ UNCHANGED <<registry_vars, executor_vars, service_vars>>

(***************************************************************************)
(* TaskExecutor.run_worker / execute_task, one executor process e          *)
(***************************************************************************)
\* run_worker: pending_tasks = get_pending_tasks(); sleep when it is empty
Poll(e) ==
    /\ pc[e] = "poll"
    /\ pending_tasks' = [pending_tasks EXCEPT ![e] = get_pending_tasks(tasks_dir)]
    /\ pc' = [pc EXCEPT ![e] = IF get_pending_tasks(tasks_dir) = <<>> THEN "poll" ELSE "loop"]
    /\ UNCHANGED <<tasks_dir, mtime, next_id, clock, registry_vars, spider, start_time,
                   processed_count, service_vars>>

\* execute_task up to start_time: get_spider, then mark RUNNING and persist;
\* a KeyError of get_spider goes to the except branch, which persists FAILED
\* with str(e) and returns False
ExecuteTaskBegin(e) ==
    /\ pc[e] = "loop"
    /\ LET t == Head(pending_tasks[e])
           rest == Tail(pending_tasks[e])
       IN IF get_spider_raises(spiders[e], spider_instances[e], t.spider_name)
          THEN LET failed == update_status(t, FAILED, Some(KeyErrorDefault), clock)
               IN /\ tasks_dir' = update_task(tasks_dir, failed)
                  /\ mtime' = written_at(mtime, tasks_dir', failed, clock)
                  /\ pending_tasks' = [pending_tasks EXCEPT ![e] = rest]
                  /\ pc' = [pc EXCEPT ![e] = run_worker_next(FALSE, rest)]
                  /\ processed_count' = [processed_count EXCEPT ![e] = @ + 1]
                  /\ UNCHANGED <<spider_instances, spider, start_time>>
          ELSE LET running == update_status(t, RUNNING, None, clock)
               IN /\ spider_instances' = [spider_instances EXCEPT ![e] =
                         get_spider_instances(spiders[e], @, t.spider_name)]
                  /\ spider' = [spider EXCEPT ![e] =
                         get_spider(spiders[e], spider_instances[e], t.spider_name)]
                  /\ tasks_dir' = update_task(tasks_dir, running)
                  /\ mtime' = written_at(mtime, tasks_dir', running, clock)
                  /\ pending_tasks' = [pending_tasks EXCEPT ![e] = <<running>> \o rest]
                  /\ start_time' = [start_time EXCEPT ![e] = clock]
                  /\ pc' = [pc EXCEPT ![e] = "claimed"]
                  /\ UNCHANGED processed_count
    /\ UNCHANGED <<next_id, clock, spider_files, spiders, ret, service_vars>>

execute_task_final_stays_running(t, ok, execution_time, now) == t

\* execute_task after the crawl: the task as finalized in memory
execute_task_final(t, ok, execution_time, now) ==
    IF ok
    THEN update_status([t EXCEPT !.execution_time = Some(execution_time)],
                       COMPLETED, None, now)
    ELSE update_status(t, FAILED, Some(TaskExecutionFailed), now)

\* execute_task from the crawl on: success = await _execute_single_task(),
\* execution_time, COMPLETED or FAILED, persist, return; the crawl takes
\* one unit of time and the locals of execute_task go out of scope
ExecuteTaskEnd(e) ==
    /\ pc[e] = "claimed"
    /\ LET t == Head(pending_tasks[e])
           rest == Tail(pending_tasks[e])
           ok == _execute_single_task_success(t, spider[e])
           now == clock + 1
           final == execute_task_final(_execute_single_task(t, spider[e]), ok,
                                       now - start_time[e], now)
       IN /\ tasks_dir' = update_task(tasks_dir, final)
          /\ mtime' = written_at(mtime, tasks_dir', final, now)
          /\ clock' = now
          /\ pending_tasks' = [pending_tasks EXCEPT ![e] = rest]
          /\ pc' = [pc EXCEPT ![e] = run_worker_next(ok, rest)]
    /\ processed_count' = [processed_count EXCEPT ![e] = @ + 1]
    /\ spider' = [spider EXCEPT ![e] = NoClass]
    /\ start_time' = [start_time EXCEPT ![e] = 0]
    /\ UNCHANGED <<next_id, registry_vars, service_vars>>

Next ==
    \/ \E url \in TaskUrls, name \in TaskSpiderNames : CreateTask(url, name)
    \/ \E e \in Executors : Poll(e)
    \/ \E e \in Executors : ExecuteTaskBegin(e)
    \/ \E e \in Executors : ExecuteTaskEnd(e)

Spec == Init /\ [][Next]_vars

(***************************************************************************)
(* Claims on the task lifecycle (specification Spec)                       *)
(***************************************************************************)
\* the record get_task returns for an id has ended: COMPLETED or FAILED
Ended(id) == get_task(tasks_dir, id) # NoFile
             /\ get_task(tasks_dir, id).status \in {COMPLETED, FAILED}

\* executor e is between the claim and the final write of its current task
Working(e) == pc[e] = "claimed"

AllowedTransition(a, b) ==
    \/ a = b
    \/ a = PENDING /\ b \in {RUNNING, CANCELLED}
    \/ a = RUNNING /\ b \in {COMPLETED, FAILED, CANCELLED}

\* C1: the persisted status of a task changes only along PENDING->RUNNING,
\* RUNNING->COMPLETED, RUNNING->FAILED, and to CANCELLED from PENDING or
\* RUNNING: no step takes it out of COMPLETED or FAILED, or from PENDING
\* straight to COMPLETED or FAILED.
C1_StatusOnlyForward ==
    [][\A id \in TaskIds :
          get_task(tasks_dir, id) # NoFile =>
             /\ get_task(tasks_dir', id) # NoFile
             /\ AllowedTransition(get_task(tasks_dir, id).status,
                                  get_task(tasks_dir', id).status)]_vars

\* C2: no two executors work on the same task id at the same time.
C2_SingleOwner ==
    \A e1 \in Executors, e2 \in Executors :
        (e1 # e2 /\ Working(e1) /\ Working(e2))
            => Head(pending_tasks[e1]).task_id # Head(pending_tasks[e2]).task_id

\* C3: while an executor is at work on a task, it holds no task that it
\* read as PENDING and has not yet persisted as RUNNING, and the store
\* records the task it works on as RUNNING.
C3_ClaimImmediatelyAfterRead ==
    \A e \in Executors :
        pc[e] = "claimed" =>
            /\ Tail(pending_tasks[e]) = <<>>
            /\ get_task(tasks_dir, Head(pending_tasks[e]).task_id).status = RUNNING

\* C4: Scenario A. With DefaultSpider registered as `default` in every
\* executor, a task for `default` on a url answering 200 that has ended is
\* COMPLETED with success_count 1 and fail_count 0, the extracted data being
\* the raw content.
C4_ScenarioA ==
    \A id \in TaskIds :
        LET r == get_task(tasks_dir, id)
        IN (/\ Ended(id)
            /\ r.spider_name = "default"
            /\ \A e \in Executors : spiders[e]["default"] = "DefaultSpider"
            /\ Web(r.urls[1]).response /\ Web(r.urls[1]).status = 200)
           => /\ r.status = COMPLETED
              /\ r.successful_count = 1
              /\ r.failed_count = 0
              /\ parse("DefaultSpider", Web(r.urls[1]).text).value = Web(r.urls[1]).text

\* C5: a task persisted as COMPLETED or FAILED has progress 100 and an
\* execution time.
C5_FinalizedProgress ==
    \A id \in TaskIds :
        Ended(id) => /\ get_task(tasks_dir, id).progress = 100
                     /\ get_task(tasks_dir, id).execution_time # None

\* C6: Scenario D. A task for a registered strategy whose parse raises, on
\* a url that answers, ends FAILED with the exception's text as error_message.
C6_ScenarioD ==
    \A id \in TaskIds :
        LET r == get_task(tasks_dir, id)
        IN (/\ Ended(id)
            /\ r.spider_name = "custom"
            /\ \A e \in Executors : spiders[e]["custom"] = "CustomSpider"
            /\ Web(r.urls[1]).response
            /\ parse("CustomSpider", Web(r.urls[1]).text).raised)
           => /\ r.status = FAILED
              /\ r.error_message = Some(parse("CustomSpider", Web(r.urls[1]).text).value)

\* C7: the executor loop is never left, and it returns to polling only when
\* every task of the list it read has been executed, whatever the outcome
\* of each task.
C7_LoopNeverStops ==
    \A e \in Executors :
        /\ pc[e] # "stopped"
        /\ pc[e] = "poll" => pending_tasks[e] = <<>>
        /\ pc[e] = "loop" => pending_tasks[e] # <<>>

\* an executor that has had a task fail is executing a further task of the
\* same list
C7_Witness ==
    \E e \in Executors :
        /\ processed_count[e] >= 1
        /\ pc[e] = "claimed"
        /\ \E id \in TaskIds : /\ id # Head(pending_tasks[e]).task_id
                               /\ Ended(id)
                               /\ get_task(tasks_dir, id).status = FAILED

\* C8: a task made by create_single_task is PENDING with progress 0, zero
\* counters, no error message and urls = <<url>>; so is every record of the
\* pending directory.
C8_CreatedPending ==
    /\ \A u \in Urls, n \in SpiderNames :
          LET t == create_single_task(1, u, n, 0)
          IN t.urls = <<u>> /\ t.status = PENDING /\ t.progress = 0
    /\ \A id \in TaskIds :
          LET r == tasks_dir["pending"][id]
          IN r # NoFile =>
                /\ r.status = PENDING
                /\ r.progress = 0
                /\ r.processed_urls = 0
                /\ r.successful_count = 0
                /\ r.failed_count = 0
                /\ r.error_message = None
                /\ Len(r.urls) = 1
                /\ r.urls[1] \in TaskUrls

C8_Witness ==
    \E id \in TaskIds : /\ tasks_dir["pending"][id] # NoFile
                        /\ tasks_dir["pending"][id].urls = <<"http://ok.test">>

(***************************************************************************)
(* The registry driven through its public methods (loader 0)               *)
(***************************************************************************)
store_vars == <<tasks_dir, next_id, clock, mtime>>

\* SpiderLoader.register_spider(name, cls)
RegisterSpider(name, cls) ==
    /\ spiders' = [spiders EXCEPT ![0] = register_spider(@, name, cls)]
    /\ ret' = [op |-> "register_spider", name |-> name, cls |-> cls,
               raised |-> register_spider_raises(cls),
               was |-> spiders[0][name], was_default |-> spiders[0]["default"]]
    /\ UNCHANGED <<spider_files, spider_instances, store_vars, executor_vars, service_vars>>

\* SpiderLoader.get_spider(name)
GetSpider(name) ==
    /\ spider_instances' = [spider_instances EXCEPT ![0] =
           get_spider_instances(spiders[0], @, name)]
    /\ ret' = [op |-> "get_spider", name |-> name,
               cls |-> get_spider(spiders[0], spider_instances[0], name),
               raised |-> get_spider_raises(spiders[0], spider_instances[0], name),
               was |-> spiders[0][name], was_default |-> spiders[0]["default"]]
    /\ UNCHANGED <<spider_files, spiders, store_vars, executor_vars, service_vars>>

\* the names and classes the calls on loader 0 are made with
CallNames == {"default", "custom", "ghost"}

CallClasses == {"DefaultSpider", "CustomSpider", PlainClass}

NextRegistry ==
    \/ \E name \in CallNames, cls \in CallClasses : RegisterSpider(name, cls)
    \/ \E name \in CallNames : GetSpider(name)

SpecRegistry == Init /\ [][NextRegistry]_vars

\* C9: get_spider(name) for an unregistered name returns an instance of the
\* class registered under `default` without raising, provided `default` is
\* registered; for a registered name it returns an instance of that name's
\* class.
C9_GetSpiderFallback ==
    ret.op = "get_spider" =>
        IF ret.was # NoClass
        THEN ~ret.raised /\ ret.cls = ret.was
        ELSE ret.was_default # NoClass => ~ret.raised /\ ret.cls = ret.was_default

\* C10: register_spider(name, cls) on a name bound to a different class
\* raises and leaves the mapping as it was.
C10_RegisterRejectsDuplicate ==
    (/\ ret.op = "register_spider"
     /\ ret.was # NoClass
     /\ ret.was # ret.cls)
        => ret.raised /\ spiders[0][ret.name] = ret.was

(***************************************************************************)
(* api/spider_service.py: SpiderService over its own SpiderLoader          *)
(* (loader 0), and reload_spiders of that loader taken one unit at a time  *)
(***************************************************************************)
\* the source text of each unit of the collection and the class it defines;
\* default.py declares no start_url
UnitSource(m) ==
    CASE m = "default" ->
            [syntax |-> "ok", load |-> "ok",
             types |-> <<[name |-> "ok", start_url |-> "absent", parse |-> "own"]>>,
             defines |-> ModuleClass(m)]
      [] m = "broken" -> [syntax |-> "ok", load |-> "ImportError", types |-> <<>>,
                          defines |-> NoClass]
      [] OTHER -> [syntax |-> "ok", load |-> "ok", types |-> <<ValidType>>,
                   defines |-> ModuleClass(m)]

DefaultEnv == [write_bytecode |-> TRUE, glob_first |-> "file"]

\* re.match(r'^[a-z][a-z0-9_]*$', spider_name)
ValidSpiderName(name) == name # "" /\ ~StartsWithUnderscore(name)

\* self.spider_loader._spiders.get(spider_name)
spiders_get(sp, name) == IF name \in DOMAIN sp THEN sp[name] ELSE NoClass

\* SpiderService.delete_spider
protected_spiders == {"ip", "hackernews"}

\* importlib.import_module('spiders.spiders.<m>') with the units `mods` in
\* sys.modules: a unit already imported is returned from sys.modules
import_module_fails_when_cached(mods, m) ==
    [raised |-> LoadFails(m) \/ m \in mods, mods |-> mods \cup {m}]

import_module(mods, m) ==
    [raised |-> LoadFails(m), mods |-> IF LoadFails(m) THEN mods ELSE mods \cup {m}]

\* the class of the module import_module returns for the unit m: that of
\* the module object in sys.modules when there is one, whatever <m>.py
\* holds now, and that of the text of <m>.py otherwise
imported_class(loaded, code, mods, m) == IF m \in mods THEN loaded[m] ELSE code[m]

discover_unit_overwrites(sp, mods, m, cls) ==
    IF StartsWithUnderscore(m) THEN sp
    ELSE IF import_module(mods, m).raised THEN sp
    ELSE register_spider(sp, InstanceName(cls), cls)

\* one pass of the loop of _discover_custom_spiders, for the unit m whose
\* module defines cls: the mapping after it
discover_unit(sp, mods, m, cls) ==
    IF StartsWithUnderscore(m) THEN sp
    ELSE IF import_module(mods, m).raised THEN sp
    ELSE LET name == InstanceName(cls)
         IN IF sp[name] = NoClass THEN register_spider(sp, name, cls) ELSE sp

\* the same pass: the classes of the modules in sys.modules after it
discover_unit_classes(loaded, mods, m, cls) ==
    IF StartsWithUnderscore(m) \/ import_module(mods, m).raised THEN loaded
    ELSE [loaded EXCEPT ![m] = cls]

\* the same pass: sys.modules after it
discover_unit_modules(mods, m) ==
    IF StartsWithUnderscore(m) THEN mods ELSE import_module(mods, m).mods

\* the same pass: the units the loop still has to visit
discover_next_aborts_on_failure(todo, m) == IF LoadFails(m) THEN {} ELSE todo \ {m}

discover_next(todo, m) == todo \ {m}

Names(sp) == {n \in SpiderNames : sp[n] # NoClass}

LastTwo(s) == IF Len(s) > 2 THEN Tail(s) ELSE s

\* reload_spiders up to the loop of _discover_custom_spiders: both
\* dictionaries are cleared in place and the directory `files` is listed
ReloadBegin(files) ==
    /\ spiders' = [spiders EXCEPT ![0] = EmptyRegistry]
    /\ spider_instances' = [spider_instances EXCEPT ![0] = EmptyRegistry]
    /\ reloading' = [active |-> TRUE, todo |-> files, before |-> spiders[0]]
    /\ listed' = NoList

\* SpiderLoader.reload_spiders() called on loader 0
ReloadSpiders ==
    /\ ~reloading.active
    /\ ReloadBegin(spider_files)
    /\ ret' = [op |-> "reload_spiders", name |-> "", cls |-> NoClass, raised |-> FALSE,
               was |-> NoClass, was_default |-> spiders[0]["default"]]
    /\ UNCHANGED <<spider_files, sys_modules, module_class, spider_code, reload_names, call, store_vars, executor_vars>>

\* the loop of _discover_custom_spiders visits one more unit, in the order
\* of the directory listing; after the last unit reload_spiders returns
ReloadStep ==
    /\ reloading.active
    /\ \E m \in reloading.todo :
          LET cls == imported_class(module_class, spider_code, sys_modules, m)
              sp == discover_unit(spiders[0], sys_modules, m, cls)
              todo == discover_next(reloading.todo, m)
          IN /\ spiders' = [spiders EXCEPT ![0] = sp]
             /\ sys_modules' = discover_unit_modules(sys_modules, m)
             /\ module_class' = discover_unit_classes(module_class, sys_modules, m, cls)
             /\ reloading' = IF todo = {} THEN NoReload
                             ELSE [reloading EXCEPT !.todo = todo]
             /\ reload_names' = IF todo = {} THEN LastTwo(Append(reload_names, Names(sp)))
                                ELSE reload_names
    /\ UNCHANGED <<spider_files, spider_code, spider_instances, ret, listed, call,
                   store_vars, executor_vars>>

\* SpiderLoader.list_spiders() on loader 0, by a caller running beside the
\* reload
ListSpiders ==
    /\ reloading.active
    /\ listed' = spiders[0]
    /\ UNCHANGED <<registry_vars, sys_modules, module_class, spider_code, reloading, reload_names, call,
                   store_vars, executor_vars>>

\* SpiderService.delete_spider(spider_name) raises
delete_spider_raises(sp, files, name) ==
    IF ~ValidSpiderName(name) THEN TRUE
    ELSE IF spiders_get(sp, name) = NoClass THEN TRUE
    ELSE IF name \in protected_spiders THEN TRUE
    ELSE ClassModule(spiders_get(sp, name)) \notin files

create_spider_overwrites(files, name, code) ==
    IF ~ValidSpiderName(name) THEN TRUE
    ELSE ~validate_all(code, DefaultEnv).success

\* SpiderService.create_spider(spider_name, spider_code) raises
create_spider_raises(files, name, code) ==
    IF ~ValidSpiderName(name) THEN TRUE
    ELSE IF ~validate_all(code, DefaultEnv).success THEN TRUE
    ELSE name \in files

\* SpiderService.edit_spider(spider_name, spider_code) raises
edit_spider_raises(sp, files, name, code) ==
    IF ~ValidSpiderName(name) THEN TRUE
    ELSE IF ~validate_all(code, DefaultEnv).success THEN TRUE
    ELSE IF spiders_get(sp, name) = NoClass THEN TRUE
    ELSE ClassModule(spiders_get(sp, name)) \notin files

\* the record of a service call: cls is the class the code passed defines,
\* errors the validation errors the exception raised carries
ServiceRet(op, name, raised, cls, errors) ==
    [op |-> op, name |-> name, cls |-> cls, raised |-> raised,
     was |-> spiders_get(spiders[0], name), was_default |-> spiders[0]["default"],
     errors |-> errors]

\* the validation errors create_spider and edit_spider put in their
\* ValueError: none when the name is rejected first
service_errors(name, code) ==
    IF ~ValidSpiderName(name) THEN <<>> ELSE validate_all(code, DefaultEnv).errors

\* a service call that raised before it wrote, or that made m.py hold the
\* text defining cls (NoClass: unlinked it) and went on to reload_spiders
ServiceOutcome(record, m, cls) ==
    /\ ret' = record
    /\ IF record.raised
       THEN UNCHANGED <<spider_files, spider_code, spiders, spider_instances, reloading,
                        reload_names, listed>>
       ELSE /\ spider_code' = [spider_code EXCEPT ![m] = cls]
            /\ spider_files' = IF cls = NoClass THEN spider_files \ {m}
                               ELSE spider_files \cup {m}
            /\ ReloadBegin(spider_files')
            /\ reload_names' = <<>>
    /\ UNCHANGED <<sys_modules, module_class, call, store_vars, executor_vars>>

\* SpiderService.delete_spider(name): unlink the unit of the class, reload
DeleteSpider(name) ==
    /\ ~reloading.active
    /\ ServiceOutcome(ServiceRet("delete_spider", name,
                                 delete_spider_raises(spiders[0], spider_files, name),
                                 NoClass, <<>>),
                      ClassModule(spiders_get(spiders[0], name)), NoClass)

\* SpiderService.create_spider(name, code): write <name>.py, reload
CreateSpider(name, code) ==
    /\ ~reloading.active
    /\ ServiceOutcome(ServiceRet("create_spider", name,
                                 create_spider_raises(spider_files, name, code),
                                 code.defines, service_errors(name, code)),
                      name, code.defines)

\* SpiderService.edit_spider(name, code): rewrite the unit, reload
EditSpider(name, code) ==
    /\ ~reloading.active
    /\ ServiceOutcome(ServiceRet("edit_spider", name,
                                 edit_spider_raises(spiders[0], spider_files, name, code),
                                 code.defines, service_errors(name, code)),
                      ClassModule(spiders_get(spiders[0], name)), code.defines)

\* the names the service is called with
ServiceNames == {"default", "custom", "hackernews", "_draft"}

InitService == InitFrom({SourceUnits, SourceUnits \ {"custom"}})

NextService ==
    \/ \E name \in ServiceNames : CreateSpider(name, UnitSource(name))
    \/ \E name \in ServiceNames : EditSpider(name, UnitSource(name))
    \/ \E name \in ServiceNames : DeleteSpider(name)
    \/ ReloadSpiders
    \/ ReloadStep
    \/ ListSpiders
    \/ \E name \in CallNames : GetSpider(name)

SpecService == InitService /\ [][NextService]_vars

\* C11: while reload_spiders is under way, list_spiders returns the whole
\* mapping from before the reload or the whole mapping from after it, and
\* get_spider returns what one of these two mappings gives for the name; it
\* does not raise when `default` is registered before and after.
C11_ReloadAtomic ==
    reloading.active =>
        LET before == reloading.before
            after == _discover_custom_spiders(EmptyRegistry, spider_files)
        IN /\ listed # NoList => listed \in {before, after}
           /\ ret.op = "get_spider" =>
                 /\ (before["default"] # NoClass /\ after["default"] # NoClass)
                       => ~ret.raised
                 /\ ~ret.raised =>
                       ret.cls \in {before[get_spider_name(before, ret.name)],
                                    after[get_spider_name(after, ret.name)]}

\* C12: delete_spider("default") is rejected, and whenever no reload is
\* under way the registry holds `default`.
C12_DefaultProtected ==
    /\ (ret.op = "delete_spider" /\ ret.name = "default") => ret.raised
    /\ ~reloading.active => spiders[0]["default"] # NoClass

\* C13: two reloads in a row over an unchanged collection register the same
\* set of names.
C13_ReloadIdempotent ==
    Len(reload_names) = 2 => reload_names[1] = reload_names[2]

\* a reload_spiders call has returned after an earlier reload of the same
\* collection, and both registered the unit created through the service
C13_Witness ==
    /\ ret.op = "reload_spiders"
    /\ ~reloading.active
    /\ Len(reload_names) = 2
    /\ "custom" \in reload_names[2]
    /\ "broken" \in spider_files

\* C14: once discovery has gone through the collection, every unit that
\* loads is registered although another unit failed to load; no unit whose
\* name starts with an underscore is ever registered.
C14_FailedUnitSkipped ==
    /\ spiders[0]["draft"] = NoClass
    /\ "_draft" \notin sys_modules
    /\ ~reloading.active =>
          \A m \in Loadable(spider_files) :
              spiders[0][InstanceName(ModuleClass(m))] = ModuleClass(m)

\* a reload has gone through a collection holding broken.py and _draft.py
\* and has registered the three units that load
C14_Witness ==
    /\ ~reloading.active
    /\ reload_names # <<>>
    /\ {"broken", "_draft"} \subseteq spider_files
    /\ Names(spiders[0]) = {"default", "hackernews", "custom"}

(***************************************************************************)
(* The validator and the fetch functions: one call with bounded inputs     *)
(***************************************************************************)
call_vars == <<tasks_dir, next_id, clock, mtime, registry_vars, executor_vars,
               sys_modules, module_class, spider_code, reloading, reload_names, listed>>

\* SpiderValidator.validate_syntax(code)
ValidateSyntax(code) ==
    /\ call = NoCall
    /\ call' = [op |-> "validate_syntax", code |-> code, result |-> validate_syntax(code)]
    /\ UNCHANGED call_vars

\* SpiderValidator.validate_import(code, spider_name)
ValidateImport(code, env) ==
    /\ call = NoCall
    /\ call' = [op |-> "validate_import", code |-> code, env |-> env,
                result |-> validate_import(code, env)]
    /\ UNCHANGED call_vars

\* SpiderValidator.validate_structure(spider_class)
ValidateStructure(cls) ==
    /\ call = NoCall
    /\ call' = [op |-> "validate_structure", cls |-> cls, result |-> validate_structure(cls)]
    /\ UNCHANGED call_vars

\* SpiderValidator.validate_all(code, spider_name)
ValidateAll(code, env) ==
    /\ call = NoCall
    /\ call' = [op |-> "validate_all", code |-> code, env |-> env,
                result |-> validate_all(code, env)]
    /\ UNCHANGED call_vars

\* no SpiderResponse: the call raised
NoResponse == [url |-> "", status_code |-> 0, content |-> "",
               success |-> FALSE, error_message |-> None]

\* SpiderEngine.fetch_async(request)
FetchAsync(url) ==
    /\ call = NoCall
    /\ call' = [op |-> "fetch_async", url |-> url, raised |-> fetch_async_raises(url),
                response |-> IF fetch_async_raises(url) THEN NoResponse ELSE fetch_async(url)]
    /\ UNCHANGED call_vars

\* SpiderEngine.fetch_sync(request)
FetchSync(url) ==
    /\ call = NoCall
    /\ call' = [op |-> "fetch_sync", url |-> url, raised |-> fetch_sync_raises(url),
                response |-> IF fetch_sync_raises(url) THEN NoResponse ELSE fetch_sync(url)]
    /\ UNCHANGED call_vars

\* the sites a host behaves like at the calls of fetch_with_retry
RetrySites == {"http://ok.test", "http://missing.test", "http://down.test"}

\* SpiderEngine.fetch_with_retry(request) for a SpiderRequest with the given
\* max_retries
FetchWithRetry(answers, max_retries) ==
    /\ call = NoCall
    /\ call' = [op |-> "fetch_with_retry", answers |-> answers, max_retries |-> max_retries,
                result |-> fetch_with_retry(answers, max_retries)]
    /\ UNCHANGED call_vars

NextCalls ==
    \/ \E code \in Sources : ValidateSyntax(code)
    \/ \E code \in Sources, env \in Envs : ValidateImport(code, env)
    \/ \E cls \in AnyClassDescs : ValidateStructure(cls)
    \/ \E code \in Sources, env \in Envs : ValidateAll(code, env)
    \/ \E url \in Urls : FetchAsync(url)
    \/ \E url \in Urls : FetchSync(url)
    \/ \E answers \in [1..(MaxRetries + 1) -> RetrySites], max_retries \in 0..MaxRetries :
          FetchWithRetry(answers, max_retries)

SpecCalls == Init /\ [][NextCalls]_vars

\* the types of the errors of the last call
ErrorTypes == {call.result.errors[i].type : i \in 1..Len(call.result.errors)}

\* the types of the errors of the last call that are about `field`
ErrorTypesAbout(field) ==
    {call.result.errors[i].type :
        i \in {j \in 1..Len(call.result.errors) : call.result.errors[j].about = field}}

\* the last call judged a candidate type: validate_structure was called
\* with it, or the import stage located it
HasCandidate ==
    \/ call.op = "validate_structure"
    \/ /\ call.op \in {"validate_all", "validate_import"}
       /\ call.code.syntax = "ok" /\ call.code.load = "ok"
       /\ call.code.types # <<>>

CandidateType == IF call.op = "validate_structure" THEN call.cls ELSE Head(call.code.types)

\* C15: validate_all on a source that is not valid syntax fails with one
\* error, a syntax_error; when the import raises, the result holds an
\* import_error and no structure_error or field_error.
C15_StageGating ==
    call.op = "validate_all" =>
        /\ call.code.syntax # "ok" =>
              /\ ~call.result.success
              /\ Len(call.result.errors) = 1
              /\ ErrorTypes = {"syntax_error"}
        /\ (call.code.syntax = "ok" /\ call.code.load # "ok") =>
              /\ ~call.result.success
              /\ ErrorTypes = {"import_error"}

\* C16: for a candidate type, a field (name, start_url) that is not
\* declared gives a structure_error about it, one that is not a string or
\* is empty or blank gives a field_error about it, a non-blank string gives
\* no error about it; an error about either field fails the validation.
C16_FieldVerdicts ==
    HasCandidate =>
        \A f \in {"name", "start_url"} :
            LET v == CandidateType[f]
            IN /\ v = "absent" => ErrorTypesAbout(f) = {"structure_error"}
               /\ v \in {"none", "nonstring", "empty", "blank"}
                     => ErrorTypesAbout(f) = {"field_error"}
               /\ v = "ok" => ErrorTypesAbout(f) = {}
               /\ ErrorTypesAbout(f) # {} => ~call.result.success

\* validate_all judged a type whose name is blank and whose start_url is
\* not declared
C16_Witness ==
    /\ call.op = "validate_all"
    /\ HasCandidate
    /\ CandidateType.name = "blank"
    /\ CandidateType.start_url = "absent"
    /\ CandidateType.parse = "own"
    /\ ~call.result.success

\* C17: a candidate type that only inherits parse fails validation with a
\* structure_error about parse, also when name and start_url are valid.
C17_ParseMustBeOwn ==
    (HasCandidate /\ CandidateType.parse = "inherited") =>
        /\ ~call.result.success
        /\ ErrorTypesAbout("parse") = {"structure_error"}

\* validate_all judged a type with valid name and start_url that inherits
\* parse
C17_Witness ==
    /\ call.op = "validate_all"
    /\ HasCandidate
    /\ CandidateType = [name |-> "ok", start_url |-> "ok", parse |-> "inherited"]
    /\ call.result.errors = <<ValidationError("structure_error", "parse")>>

C19_ImportLeavesNothing ==
    call.op = "validate_import" =>
        /\ ~call.result.proc.on_path
        /\ ~call.result.proc.in_modules
        /\ ~call.result.proc.temp_file
        /\ ~call.result.proc.temp_dir

\* C20: fetch_sync and fetch_async do not raise; when the transport fails
\* they return success = false, status_code = 0 and an error message.
C20_FetchNeverRaises ==
    call.op \in {"fetch_sync", "fetch_async"} =>
        /\ ~call.raised
        /\ ~Web(call.url).response =>
              /\ ~call.response.success
              /\ call.response.status_code = 0
              /\ call.response.error_message # None

\* fetch_async was called on a host that does not answer in time and
\* returned a failed response
C20_Witness ==
    /\ call.op = "fetch_async"
    /\ Web(call.url).failure = "timeout"
    /\ ~call.raised
    /\ ~call.response.success

\* the first call of fetch_sync of the last fetch_with_retry that gives
\* status 200 among the max_retries + 1 the loop may make, 0 when there is
\* none
First200 ==
    LET hits == {k \in 1..(call.max_retries + 1) :
                    fetch_sync(call.answers[k]).status_code = 200}
    IN IF hits = {} THEN 0 ELSE CHOOSE k \in hits : \A j \in hits : k <= j

\* C21: fetch_with_retry stops at the first attempt whose result has status
\* 200 and returns that result; otherwise it makes exactly max_retries + 1
\* attempts; it never makes more.
C21_RetryAttempts ==
    call.op = "fetch_with_retry" =>
        /\ call.result.attempts <= call.max_retries + 1
        /\ First200 # 0 =>
              /\ call.result.attempts = First200
              /\ call.result.response = Some(fetch_sync(call.answers[First200]))
        /\ First200 = 0 => call.result.attempts = call.max_retries + 1

\* C22: when no attempt gives status 200, fetch_with_retry returns the
\* result of the last attempt.
C22_ReturnsLastResult ==
    (call.op = "fetch_with_retry" /\ First200 = 0) =>
        /\ ~call.result.raised
        /\ call.result.response = Some(fetch_sync(call.answers[call.max_retries + 1]))

\* C23: after the failed attempt k (k = 1..max_retries) fetch_with_retry
\* sleeps delay * k before the next attempt, and it does not sleep after
\* the last attempt.
C23_LinearBackoff ==
    call.op = "fetch_with_retry" =>
        LET failed == IF First200 = 0 THEN call.max_retries ELSE First200 - 1
        IN call.result.sleeps = [k \in 1..failed |-> k]

(***************************************************************************)
(* The task store driven through the public methods of TaskManager by a    *)
(* client that reads a task, changes it in memory and persists it; unlink  *)
(* may fail                                                                *)
(***************************************************************************)
\* the latest time of the store's clock
MaxClock == 4

\* list_tasks, get_task_stats and cleanup_old_tasks are the last call of a
\* behaviour
StoreOpen == call.op \notin {"list_tasks", "get_task_stats", "cleanup_old_tasks"}

\* the number of files of a task id over the directories
Records(fs, task_id) == Cardinality({d \in Dirs : fs[d][task_id] # NoFile})

\* task_manager.update_task(task) for the task changed in memory at time now
Persist(task, unlink_fails, now) ==
    LET out == update_task_outcome(tasks_dir, task, unlink_fails)
    IN /\ tasks_dir' = out.fs
       /\ mtime' = written_at(mtime, out.fs, task, now)
       /\ clock' = now
       /\ call' = [op |-> "update_task", task |-> task, ok |-> out.ok,
                   unlink_failed |-> unlink_fails, retry |-> FALSE,
                   records_before |-> Records(tasks_dir, task.task_id)]
       /\ UNCHANGED <<next_id, registry_vars, executor_vars,
                      sys_modules, module_class, spider_code, reloading, reload_names, listed>>

StoreCreateTask ==
    /\ StoreOpen
    /\ clock < MaxClock
    /\ CreateTask("http://ok.test", "default")

\* task = get_task(id); task.update_status(status, error_message);
\* update_task(task)
StoreUpdateStatus(task_id, status, error_message, unlink_fails) ==
    /\ StoreOpen
    /\ clock < MaxClock
    /\ get_task(tasks_dir, task_id) # NoFile
    /\ Persist(update_status(get_task(tasks_dir, task_id), status, error_message, clock + 1),
               unlink_fails, clock + 1)

\* task = get_task(id); task.update_progress(...); update_task(task)
StoreUpdateProgress(task_id, successful_count) ==
    /\ StoreOpen
    /\ clock < MaxClock
    /\ get_task(tasks_dir, task_id) # NoFile
    /\ Persist(update_progress(get_task(tasks_dir, task_id), 1, successful_count,
                               1 - successful_count, clock + 1),
               FALSE, clock + 1)

\* task = get_task(id); task.set_completed(result_files, execution_time);
\* update_task(task)
StoreSetCompleted(task_id, unlink_fails) ==
    /\ StoreOpen
    /\ clock < MaxClock
    /\ get_task(tasks_dir, task_id) # NoFile
    /\ Persist(set_completed(get_task(tasks_dir, task_id), <<<<"json", "out.json">>>>, 1,
                             clock + 1),
               unlink_fails, clock + 1)

\* update_task(task) again, with the task of the call that returned False
StoreRetry(unlink_fails) ==
    /\ call.op = "update_task"
    /\ ~call.ok
    /\ LET out == update_task_outcome(tasks_dir, call.task, unlink_fails)
       IN /\ tasks_dir' = out.fs
          /\ mtime' = written_at(mtime, out.fs, call.task, clock)
          /\ call' = [call EXCEPT !.ok = out.ok, !.unlink_failed = unlink_fails,
                                  !.retry = TRUE]
    /\ UNCHANGED <<next_id, clock, registry_vars, executor_vars,
                   sys_modules, module_class, spider_code, reloading, reload_names, listed>>

\* TaskManager.list_tasks(status = status, limit = limit)
ListTasks(status, limit) ==
    /\ StoreOpen
    /\ \E read \in list_tasks_read(tasks_dir, status, limit) :
          call' = [op |-> "list_tasks", status |-> status, limit |-> limit,
                   result |-> list_tasks_limit(read, limit)]
    /\ UNCHANGED call_vars

\* TaskManager.get_task_stats()
GetTaskStats ==
    /\ StoreOpen
    /\ call' = [op |-> "get_task_stats", stats |-> get_task_stats(tasks_dir)]
    /\ UNCHANGED call_vars

\* TaskManager.cleanup_old_tasks(days = days); unlink raises on the files
\* of the ids in `failing`, which are among the files it is called on
CleanupOldTasks(days, failing) ==
    /\ StoreOpen
    /\ failing \subseteq {f[2] : f \in cleanup_unlinked(tasks_dir, mtime, clock - days, {})}
    /\ LET cutoff == clock - days
           out == cleanup_old_tasks(tasks_dir, mtime, cutoff, failing)
       IN /\ tasks_dir' = out.fs
          /\ mtime' = [d \in Dirs |-> [i \in TaskIds |->
                          IF out.fs[d][i] = NoFile THEN 0 ELSE mtime[d][i]]]
          /\ call' = [op |-> "cleanup_old_tasks", cutoff |-> cutoff, failing |-> failing,
                      cleaned_count |-> out.cleaned_count,
                      unlinked |-> {[task |-> tasks_dir[f[1]][f[2]], mtime |-> mtime[f[1]][f[2]]] :
                                      f \in cleanup_unlinked(tasks_dir, mtime, cutoff, failing)}]
    /\ UNCHANGED <<next_id, clock, registry_vars, executor_vars,
                   sys_modules, module_class, spider_code, reloading, reload_names, listed>>

\* the passing of time
Tick ==
    /\ StoreOpen
    /\ clock < MaxClock
    /\ clock' = clock + 1
    /\ UNCHANGED <<tasks_dir, mtime, next_id, registry_vars, executor_vars, service_vars>>

NextStore ==
    \/ StoreCreateTask
    \/ \E id \in TaskIds, status \in {RUNNING, COMPLETED, CANCELLED}, unlink_fails \in BOOLEAN :
          StoreUpdateStatus(id, status, None, unlink_fails)
    \/ \E id \in TaskIds, unlink_fails \in BOOLEAN :
          StoreUpdateStatus(id, FAILED, Some("boom"), unlink_fails)
    \/ \E id \in TaskIds, successful_count \in 0..1 : StoreUpdateProgress(id, successful_count)
    \/ \E id \in TaskIds, unlink_fails \in BOOLEAN : StoreSetCompleted(id, unlink_fails)
    \/ \E unlink_fails \in BOOLEAN : StoreRetry(unlink_fails)
    \/ \E status \in {PENDING, RUNNING, COMPLETED, FAILED, CANCELLED}, limit \in 0..MaxTasks :
          ListTasks(status, limit)
    \/ GetTaskStats
    \/ \E days \in 0..1, failing \in SUBSET TaskIds : CleanupOldTasks(days, failing)
    \/ Tick

SpecStore == InitFrom({SpiderModules}) /\ [][NextStore]_vars

\* the records of the store and the task of the last update_task
StoredTasks ==
    {tasks_dir[d][i] : d \in Dirs, i \in TaskIds} \ {NoFile}

C26_LimitAfterSort ==
    (call.op = "list_tasks" /\ call.limit > 0) =>
        LET all == list_tasks(tasks_dir, call.status)
        IN call.result = IF Len(all) > call.limit THEN SubSeq(all, 1, call.limit) ELSE all

\* C27: cleanup_old_tasks removes only records of COMPLETED or FAILED tasks
\* modified before the cutoff, returns the number of records removed, and
\* goes on after a failure: no such record is left but those it failed on.
C27_CleanupOnlyFinished ==
    call.op = "cleanup_old_tasks" =>
        /\ \A f \in call.unlinked :
              /\ f.task.status \in {COMPLETED, FAILED}
              /\ f.mtime < call.cutoff
        /\ call.cleaned_count = Cardinality(call.unlinked)
        /\ \A d \in Dirs, i \in TaskIds :
              (/\ tasks_dir[d][i] # NoFile
               /\ tasks_dir[d][i].status \in {COMPLETED, FAILED}
               /\ mtime[d][i] < call.cutoff) => i \in call.failing

(***************************************************************************)
(* Claims on the execution of a task (specification Spec)                  *)
(***************************************************************************)
\* neither the name nor `default` is registered in any executor
Unresolvable(name) ==
    \A e \in Executors : spiders[e][name] = NoClass /\ spiders[e]["default"] = NoClass

\* C28: Scenario B. A task naming a strategy that is not registered, while
\* `default` is not registered either, is never RUNNING and never in the
\* hands of an executor that crawls: nothing is fetched for it; once it is
\* executed it is FAILED with the text of the KeyError as error_message.
C28_ScenarioB ==
    \A id \in TaskIds :
        LET r == get_task(tasks_dir, id)
        IN (r # NoFile /\ Unresolvable(r.spider_name))
           => /\ r.status \in {PENDING, FAILED}
              /\ r.status = FAILED =>
                    /\ r.error_message = Some(KeyErrorDefault)
                    /\ r.successful_count = 0
              /\ \A e \in Executors : Working(e) => Head(pending_tasks[e]).task_id # id

\* a task for `ghost` was executed by an executor without `default` and is
\* FAILED with the text of the KeyError
C28_Witness ==
    \E id \in TaskIds :
        /\ Ended(id)
        /\ get_task(tasks_dir, id).spider_name = "ghost"
        /\ Unresolvable("ghost")
        /\ get_task(tasks_dir, id).status = FAILED
        /\ get_task(tasks_dir, id).error_message = Some(KeyErrorDefault)

\* C29: a task for a registered strategy whose fetch fails in the transport
\* ends FAILED with successful_count 0 and failed_count 1, and its
\* error_message is the error of the fetch.
C29_FetchErrorRecorded ==
    \A id \in TaskIds :
        LET r == get_task(tasks_dir, id)
        IN (/\ Ended(id)
            /\ r.spider_name = "default"
            /\ \A e \in Executors : spiders[e]["default"] = "DefaultSpider"
            /\ ~Web(r.urls[1]).response)
           => /\ r.status = FAILED
              /\ r.successful_count = 0
              /\ r.failed_count = 1
              /\ r.error_message = fetch_async(r.urls[1]).error_message

\* C30: a task with max_retries > 0 whose first fetch does not succeed has
\* ended only after more than one fetch was made for it.
C30_RetriesBeforeFailed ==
    \A id \in TaskIds :
        LET r == get_task(tasks_dir, id)
        IN (/\ Ended(id)
            /\ r.spider_name = "default"
            /\ \A e \in Executors : spiders[e]["default"] = "DefaultSpider"
            /\ ~fetch_async(r.urls[1]).success
            /\ r.max_retries > 0)
           => crawl_single_fetches("DefaultSpider", r.urls[1]) > 1

(***************************************************************************)
(* Claims on the task store (specification SpecStore), continued           *)
(***************************************************************************)
\* C31: between the calls of the store every task id has at most one record
\* over the four directories (one, until cleanup removes it), and after an
\* update_task get_task returns the record that call persisted, also when
\* the removal of the old record failed.
C31_OneRecord ==
    /\ \A id \in TaskIds : Records(tasks_dir, id) <= 1
    /\ \A id \in TaskIds : (id <= next_id /\ StoreOpen) => Records(tasks_dir, id) = 1
    /\ call.op = "update_task" => get_task(tasks_dir, call.task.task_id) = call.task

\* C32: list_tasks(status = s) without a limit returns exactly the stored
\* tasks whose status is s, and get_task_stats counts under `failed` the
\* stored tasks whose status is FAILED.
C32_StatusFilterExact ==
    /\ (call.op = "list_tasks" /\ call.limit = 0) =>
          {call.result[k] : k \in 1..Len(call.result)}
              = {task \in StoredTasks : task.status = call.status}
    /\ call.op = "get_task_stats" =>
          call.stats.failed = Cardinality({task \in StoredTasks : task.status = FAILED})

(***************************************************************************)
(* Claims on the fetch functions (specification SpecCalls), continued      *)
(***************************************************************************)
\* C33: for any HTTP response, 4xx and 5xx included, fetch_sync and
\* fetch_async return success = true, the status of the response as
\* status_code and its body as content; success is false only when no
\* response was obtained.
C33_AnyResponseIsSuccess ==
    call.op \in {"fetch_sync", "fetch_async"} =>
        /\ ~call.raised
        /\ Web(call.url).response =>
              /\ call.response.success
              /\ call.response.status_code = Web(call.url).status
              /\ call.response.content = Web(call.url).text
        /\ ~call.response.success => ~Web(call.url).response

(***************************************************************************)
(* SpiderLoader._discover_custom_spiders as one scan: the units of the     *)
(* collection in the order glob yields them, over a registry that may      *)
(* already hold entries                                                    *)
(***************************************************************************)
\* the units a scan may meet: custom.py defines CustomSpider and
\* custom_alt.py defines Custom, and instances of both are named "custom"
DiscoveryUnits == {"default", "custom", "custom_alt", "broken", "_draft"}

MaxScan == 3

\* the orders in which glob may yield up to MaxScan units
ScanOrders ==
    {order \in UNION {[1..n -> DiscoveryUnits] : n \in 0..MaxScan} :
        \A i, j \in DOMAIN order : i # j => order[i] # order[j]}

\* the registries a scan may start from: empty (__init__, reload_spiders),
\* or holding an entry made by register_spider
ScanRegistries ==
    {EmptyRegistry,
     register_spider(EmptyRegistry, "custom", "DefaultSpider"),
     register_spider(EmptyRegistry, "default", "DefaultSpider")}

\* the loop of _discover_custom_spiders over the units of `order`, from
\* acc: the mapping, sys.modules and the names register_spider was called
\* with, in call order
RECURSIVE discover_units(_, _)
discover_units(acc, order) ==
    IF order = <<>> THEN acc
    ELSE LET m == Head(order)
             sp == discover_unit(acc.spiders, acc.mods, m, ModuleClass(m))
         IN discover_units(
                [spiders |-> sp,
                 mods |-> discover_unit_modules(acc.mods, m),
                 registered |-> IF sp # acc.spiders
                                THEN Append(acc.registered, InstanceName(ModuleClass(m)))
                                ELSE acc.registered],
                Tail(order))

\* _discover_custom_spiders over a registry sp, glob yielding `order`
Discover(sp, order) ==
    /\ call = NoCall
    /\ call' = [op |-> "discover", before |-> sp, order |-> order,
                scan |-> discover_units([spiders |-> sp, mods |-> {},
                                         registered |-> <<>>], order)]
    /\ UNCHANGED call_vars

\* _discover_custom_spiders once more over the same collection, glob
\* yielding its units in any order
DiscoverAgain(order) ==
    /\ call.op = "discover"
    /\ {order[i] : i \in DOMAIN order} = {call.order[i] : i \in DOMAIN call.order}
    /\ call' = [op |-> "discover_again", before |-> call.scan.spiders, order |-> order,
                scan |-> discover_units([spiders |-> call.scan.spiders,
                                         mods |-> call.scan.mods,
                                         registered |-> <<>>], order)]
    /\ UNCHANGED call_vars

NextDiscovery ==
    \/ \E sp \in ScanRegistries, order \in ScanOrders : Discover(sp, order)
    \/ \E order \in ScanOrders : DiscoverAgain(order)

SpecDiscovery == Init /\ [][NextDiscovery]_vars

\* the first unit of the scan that loads and whose instances are named n
FirstUnit(order, n) ==
    LET hits == {i \in DOMAIN order : /\ order[i] \in Loadable({order[i]})
                                      /\ InstanceName(ModuleClass(order[i])) = n}
    IN IF hits = {} THEN NoClass
       ELSE ModuleClass(order[CHOOSE i \in hits : \A j \in hits : i <= j])

\* C34: a scan keeps every entry the registry held before it, binds a name
\* that was free to the class of the first unit of the scan that yields the
\* name, registers no name twice, and a second scan of the same collection
\* changes nothing.
C34_FirstRegistrationWins ==
    call.op \in {"discover", "discover_again"} =>
        /\ \A n \in SpiderNames :
              call.scan.spiders[n] = IF call.before[n] # NoClass THEN call.before[n]
                                     ELSE FirstUnit(call.order, n)
        /\ \A i, j \in DOMAIN call.scan.registered :
              i # j => call.scan.registered[i] # call.scan.registered[j]
        /\ call.op = "discover_again" =>
              call.scan.spiders = call.before /\ call.scan.registered = <<>>

\* a scan has met custom_alt.py after custom.py, and a second scan in the
\* other order has run over the registry the first one left
C34_Witness ==
    /\ call.op = "discover_again"
    /\ call.before["custom"] = "CustomSpider"
    /\ \E i, j \in DOMAIN call.order :
          i < j /\ call.order[i] = "custom_alt" /\ call.order[j] = "custom"

(***************************************************************************)
(* SpiderService.create_spider, edit_spider and delete_spider called with  *)
(* source texts of the caller's choice, beside the executor processes,     *)
(* whose tasks resolve their spider from the module-level spider_loader    *)
(***************************************************************************)
\* a text validate_all accepts, defining the class cls
Text(cls) == [syntax |-> "ok", load |-> "ok", types |-> <<ValidType>>, defines |-> cls]

\* a text ast.parse rejects
BadText == [syntax |-> "parse_error", load |-> "ok", types |-> <<>>, defines |-> NoClass]

\* the calls of create_spider: (spider_name, spider_code); my_news.py
\* defines MyNewsSpider, whose instances are named "mynews"
CreateCalls ==
    {<<"custom", Text("CustomSpider")>>, <<"custom", Text("CustomSpider_v2")>>,
     <<"custom", BadText>>, <<"my_news", Text("MyNewsSpider")>>,
     <<"_draft", Text("DraftSpider")>>}

\* the calls of edit_spider: (spider_name, spider_code)
EditCalls ==
    {<<"custom", Text("CustomSpider")>>, <<"custom", Text("CustomSpider_v2")>>,
     <<"custom", BadText>>, <<"mynews", Text("MyNewsSpider")>>,
     <<"my_news", Text("MyNewsSpider")>>, <<"_draft", Text("DraftSpider")>>}

DeleteNames == {"custom", "my_news", "mynews"}

\* worker_tasks.execute_spider_task(url, spider_name) over the loader of
\* its process: the class of the spider used and the success it reports;
\* an exception of get_spider or crawl_single is caught and reported
execute_spider_task(sp, inst, url, name) ==
    IF get_spider_raises(sp, inst, name)
    THEN [cls |-> NoClass, success |-> FALSE]
    ELSE LET cls == get_spider(sp, inst, name)
             crawled == crawl_single(cls, url)
         IN [cls |-> cls, success |-> ~crawled.raised /\ crawled.result.success]

\* execute_spider_task(url, name) in the process of executor e
ExecuteSpiderTask(e, url, name) ==
    /\ spider_instances' = [spider_instances EXCEPT ![e] =
           get_spider_instances(spiders[e], @, name)]
    /\ call' = [op |-> "execute_spider_task", name |-> name,
                result |-> execute_spider_task(spiders[e], spider_instances[e], url, name)]
    /\ UNCHANGED <<spider_files, spiders, ret, store_vars, executor_vars, sys_modules,
                   module_class, spider_code, reloading, reload_names, listed>>

InitEdit == InitFrom({SpiderModules, SpiderModules \ {"custom"}})

NextEdit ==
    \/ \E c \in CreateCalls : CreateSpider(c[1], c[2])
    \/ \E c \in EditCalls : EditSpider(c[1], c[2])
    \/ \E name \in DeleteNames : DeleteSpider(name)
    \/ ReloadStep
    \/ \E e \in Executors, name \in DeleteNames : ExecuteSpiderTask(e, "http://ok.test", name)

SpecEdit == InitEdit /\ [][NextEdit]_vars

\* what a rejected call must leave alone: the files of the collection, their
\* texts and the mapping of the service's loader
ServiceFrame ==
    /\ spider_files' = spider_files
    /\ spider_code' = spider_code
    /\ spiders'[0] = spiders[0]

\* C35: create_spider and edit_spider raise for a name the pattern rejects
\* and for a text validate_all rejects, the exception then carrying the
\* validation errors, and create_spider raises for a name whose file exists;
\* a call that raised left the files, their texts and the mapping as they
\* were.
C35_RejectedCallChangesNothing ==
    [][\A c \in CreateCalls \cup EditCalls :
          LET name == c[1]
              code == c[2]
              validation == validate_all(code, DefaultEnv)
              rejected == ~ValidSpiderName(name) \/ ~validation.success
              reported == (ValidSpiderName(name) /\ ~validation.success)
                              => ret'.errors = validation.errors /\ ret'.errors # <<>>
          IN /\ (c \in CreateCalls /\ CreateSpider(name, code)) =>
                    /\ (rejected \/ name \in spider_files) => ret'.raised
                    /\ ret'.raised => ServiceFrame
                    /\ reported
             /\ (c \in EditCalls /\ EditSpider(name, code)) =>
                    /\ rejected => ret'.raised
                    /\ ret'.raised => ServiceFrame
                    /\ reported]_vars

\* create_spider was called with another text for custom.py, which exists:
\* it raised and the file holds the text it held
C35_Witness ==
    /\ ret.op = "create_spider"
    /\ ret.raised
    /\ ret.name \in spider_files
    /\ ret.cls \notin {NoClass, spider_code[ret.name]}

\* C38: once create_spider(spider_name, code) has returned without raising,
\* the service's loader binds spider_name to the class code defines:
\* get_spider(spider_name) does not fall back to "default" and
\* delete_spider(spider_name) finds the spider.
C38_CreatedIsRegistered ==
    (ret.op = "create_spider" /\ ~ret.raised /\ ~reloading.active) =>
        /\ spiders[0][ret.name] = ret.cls
        /\ get_spider_name(spiders[0], ret.name) = ret.name
        /\ spiders_get(spiders[0], ret.name) # NoClass

\* C39: once edit_spider(spider_name, new_code) has returned without
\* raising, get_spider(spider_name) on the service's loader returns an
\* instance of the class new_code defines.
C39_EditedIsServed ==
    (ret.op = "edit_spider" /\ ~ret.raised /\ ~reloading.active) =>
        get_spider(spiders[0], spider_instances[0], ret.name) = ret.cls

\* C40: whenever no service call is under way, the loader of every executor
\* holds the names the service's loader holds, and a task executed under a
\* name uses the class the service's loader binds to that name.
C40_OneRegistry ==
    ~reloading.active =>
        /\ \A e \in Executors : Names(spiders[e]) = Names(spiders[0])
        /\ call.op = "execute_spider_task" =>
              call.result.cls = spiders[0][get_spider_name(spiders[0], call.name)]

(***************************************************************************)
(* One executor: run_worker of process 1 beside task creation; its loop    *)
(* never blocks, so each of its steps is taken once it stays enabled       *)
(***************************************************************************)
NextOne ==
    \/ \E url \in TaskUrls, name \in TaskSpiderNames : CreateTask(url, name)
    \/ Poll(1)
    \/ ExecuteTaskBegin(1)
    \/ ExecuteTaskEnd(1)

SpecOne ==
    /\ Init
    /\ [][NextOne]_vars
    /\ WF_vars(Poll(1))
    /\ WF_vars(ExecuteTaskBegin(1))
    /\ WF_vars(ExecuteTaskEnd(1))

\* C36: with one executor, a task stored as PENDING is eventually stored as
\* COMPLETED or FAILED, and a task is stored as RUNNING only while
\* execute_task is running for it.
C36_EveryTaskEnds ==
    /\ \A id \in TaskIds :
          (get_task(tasks_dir, id) # NoFile /\ get_task(tasks_dir, id).status = PENDING)
              ~> Ended(id)
    /\ [](\A id \in TaskIds :
             (get_task(tasks_dir, id) # NoFile /\ get_task(tasks_dir, id).status = RUNNING)
                 => /\ pc[1] = "claimed"
                    /\ Head(pending_tasks[1]).task_id = id)

\* the executor has gone through two tasks read in one poll, and both are
\* stored as ended
C36_Witness ==
    /\ processed_count[1] = 2
    /\ pc[1] = "poll"
    /\ \A id \in TaskIds : Ended(id)

(***************************************************************************)
(* TaskManager.iter_pending_tasks: a generator resumed by its consumer,    *)
(* over a store no task is added to once the iteration has begun           *)
(***************************************************************************)
iter_pending_tasks_yields_unsaved(fs, read, write_fails, unlink_fails, now) ==
    LET pending == list_tasks_limit(read, 1)
    IN IF pending = <<>>
       THEN [fs |-> fs, yielded |-> None, failed |-> FALSE]
       ELSE LET task == update_status(pending[1], RUNNING, None, now)
            IN IF write_fails
               THEN [fs |-> fs, yielded |-> Some(task), failed |-> FALSE]
               ELSE [fs |-> update_task_outcome(fs, task, unlink_fails).fs,
                     yielded |-> Some(task), failed |-> FALSE]

\* one pass of the loop of iter_pending_tasks over the store fs, `read`
\* being what the glob of get_pending_tasks(limit=1) came upon: the store
\* after it, the task yielded (None: the loop was left), and whether it
\* was left because update_task returned False
iter_pending_tasks(fs, read, write_fails, unlink_fails, now) ==
    LET pending == list_tasks_limit(read, 1)
    IN IF pending = <<>>
       THEN [fs |-> fs, yielded |-> None, failed |-> FALSE]
       ELSE LET task == update_status(pending[1], RUNNING, None, now)
                out == update_task_outcome(fs, task, unlink_fails)
            IN IF write_fails
               THEN [fs |-> fs, yielded |-> None, failed |-> TRUE]
               ELSE IF out.ok
                    THEN [fs |-> out.fs, yielded |-> Some(task), failed |-> FALSE]
                    ELSE [fs |-> out.fs, yielded |-> None, failed |-> TRUE]

\* the tasks the generator has yielded so far
Yielded == IF call = NoCall THEN <<>> ELSE call.yielded

\* create_task before the first next() on the generator
IterCreateTask(url, name) ==
    /\ call = NoCall
    /\ CreateTask(url, name)

\* next() on the generator: it runs up to its next yield or to its end
IterNext(write_fails, unlink_fails) ==
    /\ IF call = NoCall THEN TRUE ELSE call.state = "yielded"
    /\ \E read \in list_tasks_read(tasks_dir, PENDING, 1) :
          LET step == iter_pending_tasks(tasks_dir, read, write_fails, unlink_fails, clock)
          IN /\ tasks_dir' = step.fs
             /\ mtime' = IF step.fs = tasks_dir THEN mtime
                         ELSE written_at(mtime, step.fs,
                                         update_status(list_tasks_limit(read, 1)[1],
                                                       RUNNING, None, clock), clock)
             /\ call' = [op |-> "iter_pending_tasks",
                         state |-> IF step.yielded = None THEN "returned" ELSE "yielded",
                         yielded |-> IF step.yielded = None THEN Yielded
                                     ELSE Append(Yielded, CHOOSE t \in step.yielded : TRUE),
                         failed |-> step.failed]
    /\ UNCHANGED <<next_id, clock, registry_vars, executor_vars, sys_modules,
                   module_class, spider_code, reloading, reload_names, listed>>

IterStep == \E write_fails, unlink_fails \in BOOLEAN : IterNext(write_fails, unlink_fails)

NextIter ==
    \/ \E url \in TaskUrls, name \in TaskSpiderNames : IterCreateTask(url, name)
    \/ IterStep

\* the consumer keeps calling next() until the generator has returned
SpecIter == InitFrom({SpiderModules}) /\ [][NextIter]_vars /\ WF_vars(IterStep)

\* C37: iter_pending_tasks yields no task twice; a task it yields is stored
\* as RUNNING and has no file in the pending directory when it is yielded;
\* the generator returns, and when it returns either update_task had
\* returned False or the pending directory is empty and every task created
\* was yielded.
C37_IterYieldsOnce ==
    /\ [](call # NoCall =>
            /\ \A i, j \in DOMAIN call.yielded :
                  i # j => call.yielded[i].task_id # call.yielded[j].task_id
            /\ call.state = "yielded" =>
                  LET task == call.yielded[Len(call.yielded)]
                  IN /\ task.status = RUNNING
                     /\ tasks_dir[status_dir_map(RUNNING)][task.task_id] = task
                     /\ tasks_dir[status_dir_map(PENDING)][task.task_id] = NoFile
            /\ call.state = "returned" =>
                  \/ call.failed
                  \/ /\ dir_tasks(tasks_dir, PENDING) = {}
                     /\ {call.yielded[i].task_id : i \in DOMAIN call.yielded} = 1..next_id)
    /\ <>(call # NoCall /\ call.state = "returned")

\* the generator has yielded two tasks and returned on an empty pending
\* directory
C37_Witness ==
    /\ call # NoCall
    /\ call.state = "returned"
    /\ ~call.failed
    /\ Len(call.yielded) = 2

====
